---- MODULE Spec2Model ----
(***************************************************************************)
(* A model of miemieGAN's StyleGANv2-ADA training core:                    *)
(*   - StyleGANv2ADAModel.__init__ / train_iter / accumulate_gradients     *)
(*     (src/mmgan/models/architectures/styleganv2ada_model.py)             *)
(*   - Trainer.before_train's optimizer set-up (src/mmgan/core/trainer.py) *)
(*   - Trainer.train: the epoch and iteration loops, save_ckpt and         *)
(*     resume_train                                                        *)
(*   - the loss sums, the EMA blend and soft_update as exact arithmetic    *)
(*   - run_G's style mixing guard, the requires_grad flags of the          *)
(*     networks, and the EMA step of train_iter                            *)
(*   - ddp_sync's choice per forward pass and the no_weight_gradients      *)
(*     scope around the path-length and R1 gradients                       *)
(*                                                                         *)
(* Networks, losses and tensors are opaque: a tensor is known by its       *)
(* leading dimension, a loss mapping by its key set, a real number by an   *)
(* exact rational <<numerator, denominator>>.  An optional value is <<>>   *)
(* (None) or <<v>>.                                                        *)
(***************************************************************************)
EXTENDS Integers, Sequences, FiniteSets, TLC

\* ------------------------------------------------------------------ bounds
MaxInterval    == 2   \* regularization intervals are drawn from 1..MaxInterval
MaxBatch       == 1   \* leading dimension of a real-image tensor
MaxBatchIdx    == 2   \* train_iter is called while batch_idx < MaxBatchIdx
MaxAdaInterval == 2   \* ada_interval is drawn from 1..MaxAdaInterval
AdaKimg        == 1   \* the configured ada_kimg
MaxLr          == 2   \* base learning rates are MaxLr-many multiples of 1/1000
MaxSteps       == 2   \* an epoch has 1..MaxSteps iterations
MaxEpoch       == 2   \* Trainer.train runs MaxEpoch epochs
MaxSplit       == 2   \* a batch is split into 1..MaxSplit sub-batches
MaxSub         == 2   \* a sub-batch has 1..MaxSub samples
MaxTerm        == 1   \* per-sample loss terms and parameters are in 0..MaxTerm
NumParams      == 2   \* parameters of a network
MaxWs          == 2   \* a latent has 2..MaxWs per-layer style codes
MaxDepth       == 3   \* no_weight_gradients scopes are nested at most MaxDepth deep

\* ------------------------------------------------------------ small helpers
None == <<>>

Some(v) == <<v>>

Min2(a, b) == IF a <= b THEN a ELSE b

Max2(a, b) == IF a >= b THEN a ELSE b

\* number of chunks torch.Tensor.split(size) returns for `rows` rows
SplitLen(rows, size) == IF rows = 0 THEN 1 ELSE (rows + size - 1) \div size

RECURSIVE Gcd(_, _)
Gcd(a, b) == IF b = 0 THEN a ELSE Gcd(b, a % b)

Abs(a) == IF a < 0 THEN -a ELSE a

\* exact rationals <<n, d>> with d > 0, kept in lowest terms; RNorm takes
\* a denominator of either sign
RNorm(n, d) ==
    LET g == Gcd(Abs(n), Abs(d))
        sgn == IF d < 0 THEN -1 ELSE 1
    IN  IF n = 0 THEN <<0, 1>> ELSE <<(sgn * n) \div g, Abs(d) \div g>>

\* sums and comparisons go through the least common denominator
RAdd(a, b) ==
    LET g == Gcd(a[2], b[2])
    IN  RNorm(a[1] * (b[2] \div g) + b[1] * (a[2] \div g), (a[2] \div g) * b[2])

RSub(a, b) ==
    LET g == Gcd(a[2], b[2])
    IN  RNorm(a[1] * (b[2] \div g) - b[1] * (a[2] \div g), (a[2] \div g) * b[2])

RMul(a, b) == RNorm(a[1] * b[1], a[2] * b[2])

RLess(a, b) ==
    LET g == Gcd(a[2], b[2])
    IN  a[1] * (b[2] \div g) < b[1] * (a[2] \div g)

RMax(a, b) == IF RLess(a, b) THEN b ELSE a

RMin(a, b) == IF RLess(b, a) THEN b ELSE a

RZero == <<0, 1>>

\* numpy.sign of a rational
RSign(a) == IF a[1] > 0 THEN 1 ELSE IF a[1] < 0 THEN -1 ELSE 0

RECURSIVE SeqSum(_)
SeqSum(s) == IF s = <<>> THEN 0 ELSE s[1] + SeqSum(Tail(s))

RECURSIVE Concat(_)
Concat(ss) == IF ss = <<>> THEN <<>> ELSE ss[1] \o Concat(Tail(ss))

\* ------------------------------------------------------------------- state
VARIABLES
    \* StyleGANv2ADAModel: configuration fixed by __init__
    G_reg_interval,     \* None or <<k>>
    D_reg_interval,     \* None or <<k>>
    phases,             \* self.phases: sequence of [name, interval]
    z_dim,              \* self.z_dim
    pl_weight,          \* self.pl_weight
    r1_gamma,           \* self.r1_gamma
    adjust_p,           \* self.adjust_p
    augment_pipe,       \* TRUE iff self.augment_pipe is not None
    ada_interval,       \* self.ada_interval
    ada_target,         \* self.ada_target, a rational
    ada_kimg,           \* self.ada_kimg (before_train overwrites it on a resume)
    ema_rampup,         \* self.ema_rampup: None or <<a rational>> (likewise)
    \* StyleGANv2ADAModel: running state
    cur_nimg,           \* self.cur_nimg
    batch_idx,          \* self.batch_idx
    augment_pipe_p,     \* self.augment_pipe.p, a rational
    Loss_signs_real,    \* self.Loss_signs_real: sequence of sign arrays
    requires_grad,      \* requires_grad of the live G, of D and of the EMA copies
    input,              \* self.input: None or <<the batch setup_input stored>>
    npz,                \* the reference file np.load finds for this batch
    last,               \* what the train_iter call on self.input did (history)
    \* Trainer
    archi_name,         \* self.archi_name
    exp,                \* the experiment configuration read by before_train
    trainer,            \* the Trainer's fields written by before_train
    train,              \* Trainer.train: where it is, its loop counters, its hooks
    disk,               \* the checkpoint file save_ckpt wrote: None or <<ckpt_state>>
    \* tensor arithmetic evaluated on its own
    calc                \* the latest evaluation: its operands and its results

modelCfg == <<G_reg_interval, D_reg_interval, phases, z_dim, pl_weight, r1_gamma,
              adjust_p, augment_pipe, ada_interval, ada_target>>

modelRun == <<cur_nimg, batch_idx, augment_pipe_p, Loss_signs_real, requires_grad,
              input, npz, last>>

trainerVars == <<archi_name, exp, trainer, train, disk>>

vars == <<modelCfg, ada_kimg, ema_rampup, modelRun, trainerVars, calc>>

\* ------------------------------------------- StyleGANv2ADAModel.__init__
\* mutant of PhasesFor: the regularization phase is emitted before the main one
PhasesFor_regFirst(name, reg_interval) ==
    IF reg_interval = None
    THEN << [name |-> name \o "both", interval |-> 1] >>
    ELSE << [name |-> name \o "reg", interval |-> reg_interval[1]],
            [name |-> name \o "main", interval |-> 1] >>

\* the phases one role contributes (lines 84-89)
PhasesFor(name, reg_interval) ==
    IF reg_interval = None
    THEN << [name |-> name \o "both", interval |-> 1] >>
    ELSE << [name |-> name \o "main", interval |-> 1],
            [name |-> name \o "reg", interval |-> reg_interval[1]] >>

\* self.phases after the loop over [('G', G_reg_interval), ('D', D_reg_interval)]
BuildPhases(G, D) == PhasesFor("G", G) \o PhasesFor("D", D)

\* self.align_grad after __init__: set to False, then overwritten with True
align_grad == TRUE

\* num_gpus in train_iter
num_gpus == 1

\* 'G' in phase['name'] / 'D' in phase['name'] for the six phase names
HasG(name) == name \in {"Gmain", "Greg", "Gboth"}

HasD(name) == name \in {"Dmain", "Dreg", "Dboth"}

RegIntervals == {None} \cup {Some(k) : k \in 1..MaxInterval}

ZDims == {512}

PlWeights == {0, 2}

R1Gammas == {0, 10}

\* initial augmentation strengths: 0 and 1
AugmentP0 == {RZero, RNorm(1, 1)}

\* self.ema_kimg (line 104), here a thousandth: one image
ema_kimg == RNorm(1, 1000)

\* ema_rampup values: none, and 1/2
EmaRampups == {None, Some(RNorm(1, 2))}

\* ada_target values: 0 and 1/2
AdaTargets == {RZero, RNorm(1, 2)}

\* requires_grad of the networks the constructor is handed (lines 68-71):
\* the live generator (mapping and synthesis), the discriminator and the EMA
\* copies; __init__ sets none of them
GradFlags == [G : BOOLEAN, D : BOOLEAN, ema : BOOLEAN]

\* the flags of networks whose parameters are as torch creates them
TorchDefault == [G |-> TRUE, D |-> TRUE, ema |-> TRUE]

NoCall ==
    [status |-> "none", N |-> 0, b |-> 0, nimg0 |-> 0, batch_size |-> 0,
     trace |-> <<>>, post |-> <<>>, losses |-> {}, ada |-> "off", p0 |-> RZero,
     buf |-> <<>>, mean |-> RZero]

\* the running state __init__ leaves (lines 92-93, 113), with no batch staged
FreshRun ==
    /\ cur_nimg = 0
    /\ batch_idx = 0
    /\ Loss_signs_real = <<>>
    /\ requires_grad = TorchDefault
    /\ input = None
    /\ npz = None
    /\ last = NoCall

\* __init__ for every schedule and loss configuration, adaptive augmentation
\* left at its defaults (adjust_p=False, augment_pipe=None, ada_target=None)
InitModel ==
    /\ G_reg_interval \in RegIntervals
    /\ D_reg_interval \in RegIntervals
    /\ phases = BuildPhases(G_reg_interval, D_reg_interval)
    /\ z_dim \in ZDims
    /\ pl_weight \in PlWeights
    /\ r1_gamma \in R1Gammas
    /\ adjust_p = FALSE
    /\ augment_pipe = FALSE
    /\ ada_interval = MaxAdaInterval
    /\ ada_target = None
    /\ ada_kimg = AdaKimg
    /\ ema_rampup = None
    /\ augment_pipe_p = RZero
    /\ FreshRun

\* __init__ for every adaptive-augmentation configuration and discriminator
\* schedule, the generator regularized lazily
InitModelAda ==
    /\ G_reg_interval = Some(MaxInterval)
    /\ D_reg_interval \in RegIntervals
    /\ phases = BuildPhases(G_reg_interval, D_reg_interval)
    /\ z_dim \in ZDims
    /\ pl_weight = 2
    /\ r1_gamma \in R1Gammas
    /\ adjust_p \in BOOLEAN
    /\ augment_pipe \in BOOLEAN
    /\ ada_interval \in 1..MaxAdaInterval
    /\ ada_target \in AdaTargets
    /\ ada_kimg = AdaKimg
    /\ ema_rampup = None
    /\ augment_pipe_p \in (IF augment_pipe THEN AugmentP0 ELSE {RZero})
    /\ FreshRun

\* ---------------------------------- StyleGANv2ADAModel.accumulate_gradients
do_Gmain(phase) == phase \in {"Gmain", "Gboth"}

do_Dmain(phase) == phase \in {"Dmain", "Dboth"}

do_Gpl(phase) == phase \in {"Greg", "Gboth"} /\ pl_weight # 0

do_Dr1(phase) == phase \in {"Dreg", "Dboth"} /\ r1_gamma # 0

\* mutant of LossKeys: the discriminator's loss on real images is not reported
LossKeys_noDreal(phase) ==
    (IF do_Gmain(phase) THEN {"loss_Gmain"} ELSE {})
    \cup (IF do_Gpl(phase) THEN {"loss_Gpl"} ELSE {})
    \cup (IF do_Dmain(phase) THEN {"loss_Dgen"} ELSE {})
    \cup (IF do_Dr1(phase) THEN {"loss_Dr1"} ELSE {})

\* the keys of loss_numpy that one call returns
LossKeys(phase) ==
    (IF do_Gmain(phase) THEN {"loss_Gmain"} ELSE {})
    \cup (IF do_Gpl(phase) THEN {"loss_Gpl"} ELSE {})
    \cup (IF do_Dmain(phase) THEN {"loss_Dgen"} ELSE {})
    \cup (IF do_Dmain(phase) THEN {"loss_Dreal"} ELSE {})
    \cup (IF do_Dr1(phase) THEN {"loss_Dr1"} ELSE {})

\* mutant of AppendsSigns: the signs are recorded whether or not adaptive
\* augmentation is on
AppendsSigns_unguarded(phase) == do_Dmain(phase) \/ do_Dr1(phase)

\* whether the call appends real_logits.sign() to self.Loss_signs_real
AppendsSigns(phase) ==
    (do_Dmain(phase) \/ do_Dr1(phase)) /\ adjust_p /\ augment_pipe

\* one call: the returned keys and the sign buffer afterwards
accumulate_gradients(phase, signs, buf) ==
    [losses |-> LossKeys(phase),
     buf |-> IF AppendsSigns(phase) THEN Append(buf, signs) ELSE buf]

\* ---------------------------------------- StyleGANv2ADAModel.setup_input
\* a batch as the caller hands it over: N rows of real images, labels of
\* width c_dim, and numGenC per-phase generated-label tensors
Inputs == [N : 1..MaxBatch, c_dim : {0, 1}, numGenC : 0..(Len(phases) + 1)]

\* the reference file 'batch%.5d_rank%.2d.npz' on disk: absent, or holding
\* phase_real_img with n rows and all_gen_z with zrows rows
NpzFiles ==
    {None} \cup
    {Some([n |-> n, zrows |-> k * n]) : n \in 1..MaxBatch, k \in 0..(Len(phases) + 1)}

\* batches with one label tensor per phase
MatchingInputs == {inp \in Inputs : inp.numGenC = Len(phases)}

\* no reference file, or the one recorded from the batch inp
MatchingNpz(inp) ==
    {None, Some([n |-> inp.N, zrows |-> Len(phases) * inp.N])}

\* what a caller can stage: any reference file with a batch that has one
\* label tensor per phase, or any batch whose reference file, if there is
\* one, was recorded from it
Staged ==
    {<<inp, file>> : inp \in MatchingInputs, file \in NpzFiles}
    \cup UNION {{<<inp, file>> : file \in MatchingNpz(inp)} : inp \in Inputs}

\* self.input = input (line 130); train_iter runs once per stored batch, and
\* not again after a call that raised (Trainer.train_one_iter, lines 106-108)
setup_input(inp, file) ==
    /\ batch_idx < MaxBatchIdx
    /\ last.status # "raised"
    /\ input = None \/ last.status # "none"
    /\ input' = Some(inp)
    /\ npz' = file
    /\ last' = NoCall
    /\ UNCHANGED <<cur_nimg, batch_idx, augment_pipe_p, Loss_signs_real, requires_grad>>

\* ----------------------------------------- StyleGANv2ADAModel.train_iter
\* the sign arrays real_logits.sign() can be for n real images, up to order
SignArrays(n) == {[i \in 1..n |-> IF i <= j THEN 1 ELSE -1] : j \in 0..n}

\* np.load(npz_path) raises without the file (line 341);
\* phases_all_gen_c[0] raises on an empty list (line 363)
SetupRaises(inp, file) == (align_grad /\ file = None) \/ inp.numGenC = 0

\* phase_real_img.shape[0] (line 349), after line 343 replaced the input images
BatchSize(inp, file) == IF align_grad THEN file[1].n ELSE inp.N

\* len(all_gen_z) (lines 354-361)
LenAllGenZ(inp, file) ==
    IF z_dim > 0 /\ align_grad
    THEN SplitLen(file[1].zrows, BatchSize(inp, file))
    ELSE Len(phases)

\* len(all_gen_c) (lines 363-368)
LenAllGenC(inp) == IF inp.c_dim > 0 THEN inp.numGenC ELSE Len(phases)

\* how many phases zip(phases, all_gen_z, all_gen_c) yields (line 381)
Visited(inp, file) ==
    Min2(Len(phases), Min2(LenAllGenZ(inp, file), LenAllGenC(inp)))

\* mutant of Rounds: one round per image of the batch
Rounds_perImage(inp, file) == BatchSize(inp, file)

\* mutant of Rounds: the zip runs as long as the list of real labels
Rounds_perLabel(inp, file) ==
    IF inp.c_dim > 0
    THEN SplitLen(inp.N, BatchSize(inp, file) \div num_gpus)
    ELSE Len(phases)

\* how many rounds zip(phase_real_img, phase_real_c, phase_gen_z, phase_gen_c)
\* yields (lines 370-376, 400)
Rounds(inp, file) ==
    LET batch_size == BatchSize(inp, file)
        batch_gpu == batch_size \div num_gpus
        len_real_img == SplitLen(batch_size, batch_gpu)
        len_real_c == IF inp.c_dim > 0 THEN SplitLen(inp.N, batch_gpu) ELSE Len(phases)
        len_gen_z == SplitLen(batch_gpu, batch_gpu)
        len_gen_c == IF inp.c_dim > 0 THEN SplitLen(inp.N, batch_gpu) ELSE num_gpus
    IN  Min2(Min2(len_real_img, len_real_c), Min2(len_gen_z, len_gen_c))

\* mutant of SyncFlag: the "- 1" is dropped
SyncFlag_offByOne(round_idx, batch_size) ==
    LET batch_gpu == batch_size \div num_gpus
    IN  round_idx = batch_size \div (batch_gpu * num_gpus)

\* sync of one round (line 401)
SyncFlag(round_idx, batch_size) ==
    LET batch_gpu == batch_size \div num_gpus
    IN  round_idx = batch_size \div (batch_gpu * num_gpus) - 1

\* Python's a % k for a >= 0 and k # 0: the result has the sign of k
PyMod(a, k) == IF k > 0 THEN a % k ELSE -((-a) % (-k))

\* whether the loop body runs for a phase on batch b (lines 382-383)
Due(phase, b) == PyMod(b, phase.interval) = 0

\* one entry of the call's trace; keys are the loss names a call of
\* accumulate_gradients returned
Ev(op, phase, round, sync, gain, keys) ==
    [op |-> op, phase |-> phase, round |-> round, sync |-> sync, gain |-> gain,
     keys |-> keys, opt |-> "none", req |-> <<>>, passes |-> <<>>, writes |-> {}]

\* self.is_distributed after __init__ (line 118)
is_distributed == FALSE

\* ddp_sync(module, sync, is_distributed) (lines 13-18): TRUE when the body
\* runs inside module.no_sync()
ddp_sync(sync, distributed) == ~(sync \/ ~distributed)

\* one forward pass of accumulate_gradients (run_G or run_D): the loss term
\* it belongs to, the network it runs, the sync argument it is given and
\* whether ddp_sync wraps it in no_sync
Pass(term, net, sync) ==
    [term |-> term, net |-> net, sync |-> sync,
     no_sync |-> ddp_sync(sync, is_distributed)]

\* mutant of ForwardPasses: the Gmain pass is given sync whether or not the
\* path-length pass follows
ForwardPasses_GmainSync(phase, sync) ==
    (IF do_Gmain(phase)
     THEN <<Pass("Gmain", "G", sync), Pass("Gmain", "D", FALSE)>>
     ELSE <<>>)
    \o (IF do_Gpl(phase) THEN <<Pass("Gpl", "G", sync)>> ELSE <<>>)
    \o (IF do_Dmain(phase)
        THEN <<Pass("Dgen", "G", FALSE), Pass("Dgen", "D", FALSE)>>
        ELSE <<>>)
    \o (IF do_Dmain(phase) \/ do_Dr1(phase) THEN <<Pass("Dreal", "D", sync)>> ELSE <<>>)

\* mutant of ForwardPasses: the discriminator's fake images come from the
\* EMA copies of the generator
ForwardPasses_emaGenerator(phase, sync) ==
    (IF do_Gmain(phase)
     THEN <<Pass("Gmain", "G", sync /\ ~do_Gpl(phase)), Pass("Gmain", "D", FALSE)>>
     ELSE <<>>)
    \o (IF do_Gpl(phase) THEN <<Pass("Gpl", "G", sync)>> ELSE <<>>)
    \o (IF do_Dmain(phase)
        THEN <<Pass("Dgen", "ema", FALSE), Pass("Dgen", "D", FALSE)>>
        ELSE <<>>)
    \o (IF do_Dmain(phase) \/ do_Dr1(phase) THEN <<Pass("Dreal", "D", sync)>> ELSE <<>>)

\* the run_G and run_D calls of one accumulate_gradients call, in order
\* (lines 181, 188, 214, 249, 255, 275)
ForwardPasses(phase, sync) ==
    (IF do_Gmain(phase)
     THEN <<Pass("Gmain", "G", sync /\ ~do_Gpl(phase)), Pass("Gmain", "D", FALSE)>>
     ELSE <<>>)
    \o (IF do_Gpl(phase) THEN <<Pass("Gpl", "G", sync)>> ELSE <<>>)
    \o (IF do_Dmain(phase)
        THEN <<Pass("Dgen", "G", FALSE), Pass("Dgen", "D", FALSE)>>
        ELSE <<>>)
    \o (IF do_Dmain(phase) \/ do_Dr1(phase) THEN <<Pass("Dreal", "D", sync)>> ELSE <<>>)

\* the .grad fields the backward passes of one call accumulate into
\* (lines 200, 240, 266, 312): those of every network in a forward pass
\* whose parameters have requires_grad set
GradWrites(passes, req) ==
    {"grad_" \o passes[j].net : j \in {k \in 1..Len(passes) : req[passes[k].net]}}

\* mutant of SetRequiresGrad: requires_grad_(False) has no effect
SetRequiresGrad_neverFrozen(req, name, flag) ==
    IF ~flag THEN req
    ELSE IF HasG(name) THEN [req EXCEPT !.G = TRUE]
    ELSE IF HasD(name) THEN [req EXCEPT !.D = TRUE]
    ELSE req

\* requires_grad_(flag) on the networks of a phase's role (lines 388-389,
\* 394, 421-422, 427)
SetRequiresGrad(req, name, flag) ==
    IF HasG(name) THEN [req EXCEPT !.G = flag]
    ELSE IF HasD(name) THEN [req EXCEPT !.D = flag]
    ELSE req

\* the rounds of one phase (lines 400-412): acc = [trace, losses, buf, k, req]
RECURSIVE RunRounds(_, _, _, _, _, _)
RunRounds(phase, round_idx, rounds, batch_size, sg, acc) ==
    IF round_idx >= rounds THEN acc
    ELSE LET sync == SyncFlag(round_idx, batch_size)
             gain == phase.interval
             appends == AppendsSigns(phase.name)
             signs == IF appends /\ acc.k + 1 <= Len(sg) THEN sg[acc.k + 1] ELSE <<>>
             r == accumulate_gradients(phase.name, signs, acc.buf)
             passes == ForwardPasses(phase.name, sync)
             ev == [Ev("accumulate", phase.name, round_idx, sync, gain, r.losses)
                       EXCEPT !.req = acc.req, !.passes = passes,
                              !.writes = GradWrites(passes, acc.req)]
         IN  RunRounds(phase, round_idx + 1, rounds, batch_size, sg,
                 [trace |-> Append(acc.trace, ev),
                  losses |-> acc.losses \cup r.losses,
                  buf |-> r.buf,
                  k |-> IF appends THEN acc.k + 1 ELSE acc.k,
                  req |-> acc.req])

\* mutant of OptimizerOf: every phase works on the generator's optimizer
OptimizerOf_generatorOnly(name) == "optimizer_G"

\* whose optimizer a phase zeroes and steps (lines 386-396, 420-430)
OptimizerOf(name) ==
    IF HasG(name) THEN "optimizer_G" ELSE IF HasD(name) THEN "optimizer_D" ELSE "none"

\* mutant of RunPhases: the phases are visited from the last to the first
RECURSIVE RunPhases_reversed(_, _, _, _, _, _, _)
RunPhases_reversed(i, visited, b, rounds, batch_size, sg, acc) ==
    IF i > visited THEN acc
    ELSE IF ~Due(phases[visited], b)
    THEN RunPhases_reversed(i, visited - 1, b, rounds, batch_size, sg, acc)
    ELSE LET name == phases[visited].name
             zeroed == [acc EXCEPT !.trace =
                           Append(@, Ev("zero_grad", name, -1, FALSE, 0, {}))]
             done == RunRounds(phases[visited], 0, rounds, batch_size, sg, zeroed)
             stepped == [done EXCEPT !.trace =
                           Append(@, Ev("step", name, -1, FALSE, 0, {}))]
         IN  RunPhases_reversed(i, visited - 1, b, rounds, batch_size, sg, stepped)

\* the phase loop (lines 381-430) over the first `visited` phases, from phase i
RECURSIVE RunPhases(_, _, _, _, _, _, _)
RunPhases(i, visited, b, rounds, batch_size, sg, acc) ==
    IF i > visited THEN acc
    \* self.batch_idx % 0 raises and ends the loop (line 382)
    ELSE IF phases[i].interval = 0
    THEN [acc EXCEPT !.trace =
             Append(@, Ev("ZeroDivisionError", phases[i].name, -1, FALSE, 0, {}))]
    ELSE IF ~Due(phases[i], b)
    THEN RunPhases(i + 1, visited, b, rounds, batch_size, sg, acc)
    ELSE LET name == phases[i].name
             role == IF HasG(name) THEN "G" ELSE "D"
             \* zero_grad, then requires_grad_(True) (lines 386-396)
             zeroed == [acc EXCEPT
                          !.trace = Append(@,
                              [Ev("zero_grad", name, -1, FALSE, 0, {}) EXCEPT
                                  !.opt = OptimizerOf(name), !.req = acc.req,
                                  !.writes = {"grad_" \o role}]),
                          !.req = SetRequiresGrad(acc.req, name, TRUE)]
             done == RunRounds(phases[i], 0, rounds, batch_size, sg, zeroed)
             \* requires_grad_(False), then step (lines 420-430)
             frozen == SetRequiresGrad(done.req, name, FALSE)
             stepped == [done EXCEPT
                           !.trace = Append(@,
                              [Ev("step", name, -1, FALSE, 0, {}) EXCEPT
                                  !.opt = OptimizerOf(name), !.req = frozen,
                                  !.writes = {"param_" \o role}]),
                           !.req = frozen]
         IN  RunPhases(i + 1, visited, b, rounds, batch_size, sg, stepped)

\* np.mean(np.concatenate(self.Loss_signs_real, 0)) (line 465)
SignsMean(buf) == RNorm(SeqSum(Concat(buf)), Len(Concat(buf)))

\* mutant of AdaAdjust: the step ignores ada_interval
AdaAdjust_noInterval(mean, batch_size) ==
    LET diff == RSub(mean, ada_target)
        adjust == RSign(diff)
    IN  RNorm(adjust * batch_size, ada_kimg * 1000)

\* mutant of AdaAdjust: the difference is taken the other way round
AdaAdjust_flipped(mean, batch_size) ==
    LET diff == RSub(ada_target, mean)
        adjust == RSign(diff)
    IN  RNorm(adjust * (batch_size * ada_interval), ada_kimg * 1000)

\* adjust of lines 466-473
AdaAdjust(mean, batch_size) ==
    LET diff == RSub(mean, ada_target)
        adjust == RSign(diff)
    IN  RNorm(adjust * (batch_size * ada_interval), ada_kimg * 1000)

\* mutant of AdaNewP: the floor at zero is dropped
AdaNewP_noFloor(p, adjust) == RAdd(p, adjust)

\* the value copied into self.augment_pipe.p (line 474)
AdaNewP(p, adjust) == RMax(RAdd(p, adjust), RZero)

\* mutant of AdaDue: the heuristic runs after every batch
AdaDue_everyBatch(new_batch_idx) == adjust_p /\ augment_pipe

\* whether the ADA heuristic runs at the end of the call (line 463)
AdaDue(new_batch_idx) ==
    adjust_p /\ augment_pipe /\ (new_batch_idx % ada_interval = 0)

\* mutant of EmaNimg: the rampup is ignored
EmaNimg_noRampup(nimg) == RMul(ema_kimg, <<1000, 1>>)

\* ema_nimg (lines 435-440): ema_kimg * 1000, capped by cur_nimg * ema_rampup
\* when a rampup is configured
EmaNimg(nimg) ==
    LET ema_nimg == RMul(ema_kimg, <<1000, 1>>)
    IN  IF ema_rampup = None THEN ema_nimg
        ELSE RMin(ema_nimg, RMul(<<nimg, 1>>, ema_rampup[1]))

\* ema_beta = 0.5 ** (batch_size / max(ema_nimg, 1e-8)) (line 441), kept as
\* the exponent of one half; with ema_nimg = 0 the exponent is
\* batch_size * 1e8 and the power is 0.0 in floating point
EmaBeta(batch_size, ema_nimg) ==
    IF ema_nimg = RZero THEN [zero |-> TRUE, exponent |-> RZero]
    ELSE [zero |-> FALSE, exponent |-> RNorm(batch_size * ema_nimg[2], ema_nimg[1])]

\* the EMA step (lines 432-449): requires_grad_(False) on the EMA copies,
\* then p_ema.copy_(p.lerp(p_ema, ema_beta)) and b_ema.copy_(b)
EmaStep(nimg, batch_size, req) ==
    [op |-> "ema", cur_nimg |-> nimg, ema_nimg |-> EmaNimg(nimg),
     ema_beta |-> EmaBeta(batch_size, EmaNimg(nimg)),
     req |-> [req EXCEPT !.ema = FALSE], writes |-> {"param_ema"}]

\* whether the phase loop ended in an exception
PhaseLoopRaised(trace) ==
    trace # <<>> /\ trace[Len(trace)].op = "ZeroDivisionError"

\* one call of train_iter on self.input = inp with the reference file `file`
train_iter(inp, file) ==
    IF SetupRaises(inp, file)
    THEN /\ last' = [NoCall EXCEPT !.status = "raised", !.N = inp.N,
                        !.b = batch_idx, !.nimg0 = cur_nimg, !.p0 = augment_pipe_p,
                        !.buf = Loss_signs_real]
         /\ UNCHANGED <<cur_nimg, batch_idx, augment_pipe_p, Loss_signs_real,
                        requires_grad>>
    ELSE \E batch_size \in {BatchSize(inp, file)}, visited \in {Visited(inp, file)},
            rounds \in {Rounds(inp, file)} :
         \E start \in {[trace |-> <<>>, losses |-> {}, buf |-> Loss_signs_real, k |-> 0,
                         req |-> requires_grad]} :
         \E dry \in {RunPhases(1, visited, batch_idx, rounds, batch_size, <<>>, start)} :
         \E sg \in [1..dry.k -> SignArrays(batch_size)] :
         \E run \in {IF dry.k = 0 THEN dry
                     ELSE RunPhases(1, visited, batch_idx, rounds, batch_size, sg, start)} :
         \E due \in {AdaDue(batch_idx + 1)} :
         \* np.concatenate of an empty list raises (line 465)
         \E raises \in {due /\ run.buf = <<>>} :
         \E fires \in {due /\ ~raises} :
         \E mean \in {IF fires THEN SignsMean(run.buf) ELSE RZero} :
         IF PhaseLoopRaised(run.trace)
         \* the exception leaves the call from inside the phase loop: the
         \* phases before it have stepped, the counters are not reached
         THEN /\ last' = [NoCall EXCEPT !.status = "raised", !.N = inp.N,
                             !.b = batch_idx, !.nimg0 = cur_nimg,
                             !.batch_size = batch_size, !.trace = run.trace,
                             !.losses = run.losses, !.p0 = augment_pipe_p,
                             !.buf = run.buf]
              /\ Loss_signs_real' = run.buf
              /\ requires_grad' = run.req
              /\ UNCHANGED <<cur_nimg, batch_idx, augment_pipe_p>>
         ELSE
             \* after the loop: the EMA step (lines 432-449), the counters
             \* (lines 451-452), the ADA heuristic (lines 463-475)
             /\ requires_grad' = [run.req EXCEPT !.ema = FALSE]
             /\ cur_nimg' = cur_nimg + batch_size
             /\ batch_idx' = batch_idx + 1
             /\ augment_pipe_p' =
                  IF fires
                  THEN AdaNewP(augment_pipe_p, AdaAdjust(mean, batch_size))
                  ELSE augment_pipe_p
             /\ Loss_signs_real' = IF fires THEN <<>> ELSE run.buf
             /\ last' = [status |-> IF raises THEN "raised" ELSE "returned",
                         N |-> inp.N, b |-> batch_idx, nimg0 |-> cur_nimg,
                         batch_size |-> batch_size, trace |-> run.trace,
                         post |-> <<EmaStep(cur_nimg, batch_size, run.req)>>,
                         losses |-> run.losses,
                         ada |-> IF fires THEN "fired"
                                 ELSE IF raises THEN "raised" ELSE "off",
                         p0 |-> augment_pipe_p, buf |-> run.buf, mean |-> mean]

\* the caller stages any batch, with any reference file on disk
SetupInput ==
    /\ \E st \in Staged : setup_input(st[1], st[2])
    /\ UNCHANGED <<modelCfg, ada_kimg, ema_rampup, trainerVars, calc>>

\* the caller stages a batch with one label tensor per phase; the reference
\* file, when there is one, was recorded from that batch
SetupMatchingInput ==
    /\ \E inp \in MatchingInputs : \E file \in MatchingNpz(inp) : setup_input(inp, file)
    /\ UNCHANGED <<modelCfg, ada_kimg, ema_rampup, trainerVars, calc>>

TrainIter ==
    /\ input # None
    /\ last.status = "none"
    /\ train_iter(input[1], npz)
    /\ UNCHANGED <<input, npz, modelCfg, ada_kimg, ema_rampup, trainerVars, calc>>

\* ------------------------------------------------- loss values and blending
\* nothing evaluated yet; each behaviour evaluates one operation once
NoCalc == [op |-> "none"]

\* self.pl_batch_shrink as constructed by default
pl_batch_shrink == 2

\* tensor.mean() of per-sample terms
Mean(terms) == RNorm(SeqSum(terms), Len(terms))

\* the value stored under one key of loss_numpy for a sub-batch whose
\* per-sample terms are `terms`: the mean over the sub-batch (lines 194-195,
\* 262-263, 290, 306); loss_Gpl is the mean over the first
\* max(n // pl_batch_shrink, 1) samples, times pl_weight and gain (207-240)
LossValue(key, terms, gain) ==
    IF key = "loss_Gpl"
    THEN LET batch_size == Max2(Len(terms) \div pl_batch_shrink, 1)
         IN  RMul(Mean(SubSeq(terms, 1, batch_size)), <<pl_weight * gain, 1>>)
    ELSE Mean(terms)

\* loss_numpy as one call of accumulate_gradients returns it
LossValues(phase, terms, gain) ==
    [key \in LossKeys(phase) |-> LossValue(key, terms, gain)]

\* loss_numpys after `for k, v in loss_numpy.items()` (lines 407-411)
SumLosses(loss_numpys, loss_numpy) ==
    [k \in (DOMAIN loss_numpys) \cup (DOMAIN loss_numpy) |->
        IF k \in DOMAIN loss_numpys /\ k \in DOMAIN loss_numpy
        THEN RAdd(loss_numpys[k], loss_numpy[k])
        ELSE IF k \in DOMAIN loss_numpys THEN loss_numpys[k] ELSE loss_numpy[k]]

\* the rounds of lines 400-411 over sub-batches j..k of m samples each
RECURSIVE SumRounds(_, _, _, _, _, _, _)
SumRounds(phase, terms, gain, j, k, m, loss_numpys) ==
    IF j > k THEN loss_numpys
    ELSE SumRounds(phase, terms, gain, j + 1, k, m,
             SumLosses(loss_numpys,
                       LossValues(phase, SubSeq(terms, (j - 1) * m + 1, j * m), gain)))

\* the empty dict() of line 379
EmptyLosses == [k \in {} |-> RZero]

\* a batch of k sub-batches of m samples run through accumulate_gradients
\* sub-batch by sub-batch and summed, and run through it in one piece
AccumulateSplit ==
    /\ calc = NoCalc
    /\ \E i \in 1..Len(phases), k \in 1..MaxSplit, m \in 1..MaxSub :
         \E terms \in [1..(k * m) -> 0..MaxTerm] :
            calc' = [op |-> "accumulate_gradients", phase |-> phases[i].name,
                     k |-> k, terms |-> terms,
                     split |-> SumRounds(phases[i].name, terms, phases[i].interval,
                                         1, k, m, EmptyLosses),
                     whole |-> LossValues(phases[i].name, terms, phases[i].interval)]
    /\ UNCHANGED <<modelCfg, ada_kimg, ema_rampup, modelRun, trainerVars>>

\* mutant of Lerp: start and end are exchanged
Lerp_swapped(start, end, weight) == RAdd(end, RMul(weight, RSub(start, end)))

\* torch.lerp(start, end, weight) = start + weight * (end - start)
Lerp(start, end, weight) == RAdd(start, RMul(weight, RSub(end, start)))

\* the parameter loops of lines 442-443 and 446-447:
\* p_ema.copy_(p.lerp(p_ema, ema_beta)) over zip(ema parameters, parameters)
ema_update(p_ema, p, ema_beta) ==
    [i \in 1..Min2(Len(p_ema), Len(p)) |-> Lerp(p[i], p_ema[i], ema_beta)]
    \o SubSeq(p_ema, Len(p) + 1, Len(p_ema))

\* soft_update(source, target, beta) (lines 32-35): None when the assert fails
soft_update(source, target, beta) ==
    IF RLess(beta, RZero) \/ RLess(<<1, 1>>, beta) THEN None
    ELSE Some([i \in 1..Min2(Len(source), Len(target)) |->
                  Lerp(source[i], target[i], beta)]
              \o SubSeq(target, Len(source) + 1, Len(target)))

\* parameter tensors of a network, one number each
Params == [1..NumParams -> {<<v, 1>> : v \in 0..MaxTerm}]

\* blend factors: 0, 1/2, 1, and 2, which soft_update refuses
Blends == {RZero, RNorm(1, 2), RNorm(1, 1), RNorm(2, 1)}

\* the EMA step of train_iter on one network
EmaUpdate ==
    /\ calc = NoCalc
    /\ \E p \in Params, p_ema \in Params, ema_beta \in Blends \ {RNorm(2, 1)} :
          calc' = [op |-> "ema", live |-> p, shadow |-> p_ema, beta |-> ema_beta,
                   result |-> Some(ema_update(p_ema, p, ema_beta))]
    /\ UNCHANGED <<modelCfg, ada_kimg, ema_rampup, modelRun, trainerVars>>

SoftUpdate ==
    /\ calc = NoCalc
    /\ \E source \in Params, target \in Params, beta \in Blends :
          calc' = [op |-> "soft_update", live |-> source, shadow |-> target,
                   beta |-> beta, result |-> soft_update(source, target, beta)]
    /\ UNCHANGED <<modelCfg, ada_kimg, ema_rampup, modelRun, trainerVars>>

\* -------------------------------------------- StyleGANv2ADAModel.run_G
\* style_mixing_prob as a caller configures it: -1, 0, and the default 0.9
StyleMixingProbs == {RNorm(-1, 1), RZero, RNorm(9, 10)}

\* self.style_mixing_prob after __init__: assigned the argument (line 97),
\* then overwritten with -1.0 (line 98)
InitStyleMixingProb(style_mixing_prob) ==
    LET assigned == style_mixing_prob
        overwritten == RNorm(-1, 1)
    IN  overwritten

\* values of torch.rand([]): 0, 1/2 and 19/20
Rands == {RZero, RNorm(1, 2), RNorm(19, 20)}

\* the style mixing of run_G (lines 143-147) on num_ws style codes: whether
\* the branch is entered, and the first layer whose codes are replaced by
\* those of a second latent (num_ws: none is replaced)
run_G(style_mixing_prob, rand, drawn, num_ws) ==
    IF RLess(RZero, style_mixing_prob)
    THEN [mixing |-> TRUE,
          cutoff |-> IF RLess(rand, style_mixing_prob) THEN drawn ELSE num_ws]
    ELSE [mixing |-> FALSE, cutoff |-> num_ws]

\* one generator forward pass of a model constructed with any
\* style_mixing_prob; drawn is random_(1, ws.shape[1])
RunG ==
    /\ calc = NoCalc
    /\ \E configured \in StyleMixingProbs, rand \in Rands, num_ws \in 2..MaxWs :
       \E drawn \in 1..(num_ws - 1) :
          calc' = [op |-> "run_G", configured |-> configured,
                   style_mixing_prob |-> InitStyleMixingProb(configured),
                   rand |-> rand, num_ws |-> num_ws,
                   result |-> run_G(InitStyleMixingProb(configured), rand, drawn, num_ws)]
    /\ UNCHANGED <<modelCfg, ada_kimg, ema_rampup, modelRun, trainerVars>>

\* the forward passes of one accumulate_gradients call, for any phase of
\* the schedule and either value of sync
AccumulatePasses ==
    /\ calc = NoCalc
    /\ \E i \in 1..Len(phases), sync \in BOOLEAN :
          calc' = [op |-> "forward_passes", phase |-> phases[i].name, sync |-> sync,
                   passes |-> ForwardPasses(phases[i].name, sync)]
    /\ UNCHANGED <<modelCfg, ada_kimg, ema_rampup, modelRun, trainerVars>>

\* --------------------------------------------------- Trainer.before_train
\* beta ** r for a coefficient kept as configured-base ** exponent;
\* 0 ** r = 0 for a positive exponent, and anything ** 0 = 1
Pow(beta, r) ==
    IF beta.base = 0 /\ r # RZero THEN beta
    ELSE [base |-> beta.base, exp |-> RMul(beta.exp, r)]

\* a coefficient as configured: base/1000 to the power 1
Beta(permille) == [base |-> permille, exp |-> <<1, 1>>]

\* mutant of MbRatio: the ratio is inverted
MbRatio_inverted(reg_interval) == RNorm(reg_interval[1] + 1, reg_interval[1])

\* mb_ratio = reg_interval / (reg_interval + 1) (lines 159, 225, 234)
MbRatio(reg_interval) == RNorm(reg_interval[1], reg_interval[1] + 1)

\* the locals and fields the two role loops read and write
LoopStart(cfg) ==
    [new_lr |-> None, new_beta1 |-> None, new_beta2 |-> None,
     base_lr_G |-> None, base_lr_D |-> None, optimizer_cfg |-> cfg, raised |-> FALSE]

\* one pass of the StyleGANv2ADA loop body (lines 152-170); reading the
\* local new_lr before any assignment raises
V2Body(name, reg_interval, learning_rate, beta1, beta2, st) ==
    IF st.raised THEN st
    \* reg_interval / (reg_interval + 1) divides by zero (line 159)
    ELSE IF reg_interval # None /\ reg_interval[1] + 1 = 0
    THEN [st EXCEPT !.raised = TRUE]
    ELSE LET st1 == IF reg_interval = None THEN st
                    ELSE [st EXCEPT
                            !.new_lr = Some(RMul(learning_rate, MbRatio(reg_interval))),
                            !.new_beta1 = Some(Pow(beta1, MbRatio(reg_interval))),
                            !.new_beta2 = Some(Pow(beta2, MbRatio(reg_interval)))]
         IN  IF st1.new_lr = None THEN [st1 EXCEPT !.raised = TRUE]
             ELSE IF name = "G"
             THEN [st1 EXCEPT !.base_lr_G = st1.new_lr,
                              !.optimizer_cfg.generator.beta1 = st1.new_beta1[1],
                              !.optimizer_cfg.generator.beta2 = st1.new_beta2[1]]
             ELSE [st1 EXCEPT !.base_lr_D = st1.new_lr,
                              !.optimizer_cfg.discriminator.beta1 = st1.new_beta1[1],
                              !.optimizer_cfg.discriminator.beta2 = st1.new_beta2[1]]

\* the StyleGANv2ADA branch up to the optimizers (lines 144-177)
V2Branch(e, G, D) ==
    LET learning_rate == RMul(e.basic_lr_per_img, <<e.batch_size, 1>>)
        beta1 == e.optimizer_cfg.generator.beta1
        beta2 == e.optimizer_cfg.generator.beta2
        afterG == V2Body("G", G, learning_rate, beta1, beta2, LoopStart(e.optimizer_cfg))
    IN  V2Body("D", D, learning_rate, beta1, beta2, afterG)

\* one pass of the StyleGANv3 loop body (lines 217-241)
V3Body(name, reg_interval, learning_rate_g, learning_rate_d, beta1, beta2, st) ==
    IF st.raised THEN st
    \* reg_interval / (reg_interval + 1) divides by zero (lines 225, 234)
    ELSE IF reg_interval # None /\ reg_interval[1] + 1 = 0
    THEN [st EXCEPT !.raised = TRUE]
    ELSE IF reg_interval = None
    THEN IF name = "G" THEN [st EXCEPT !.base_lr_G = Some(learning_rate_g)]
         ELSE [st EXCEPT !.base_lr_D = Some(learning_rate_d)]
    ELSE LET mb_ratio == MbRatio(reg_interval)
         IN  IF name = "G"
             THEN [st EXCEPT !.base_lr_G = Some(RMul(learning_rate_g, mb_ratio)),
                             !.optimizer_cfg.generator.beta1 = Pow(beta1, mb_ratio),
                             !.optimizer_cfg.generator.beta2 = Pow(beta2, mb_ratio)]
             ELSE [st EXCEPT !.base_lr_D = Some(RMul(learning_rate_d, mb_ratio)),
                             !.optimizer_cfg.discriminator.beta1 = Pow(beta1, mb_ratio),
                             !.optimizer_cfg.discriminator.beta2 = Pow(beta2, mb_ratio)]

\* the StyleGANv3 branch up to the optimizers (lines 208-248)
V3Branch(e, G, D) ==
    LET learning_rate_g == RMul(e.basic_glr_per_img, <<e.batch_size, 1>>)
        learning_rate_d == RMul(e.basic_dlr_per_img, <<e.batch_size, 1>>)
        beta1 == e.optimizer_cfg.generator.beta1
        beta2 == e.optimizer_cfg.generator.beta2
        afterG == V3Body("G", G, learning_rate_g, learning_rate_d, beta1, beta2,
                         LoopStart(e.optimizer_cfg))
    IN  V3Body("D", D, learning_rate_g, learning_rate_d, beta1, beta2, afterG)

\* the Trainer's fields before before_train: no model, optimizer or loader yet
NewTrainer ==
    [stage |-> "new", model |-> FALSE, loaders |-> FALSE,
     base_lr_G |-> None, base_lr_D |-> None,
     optimizer_G |-> None, optimizer_D |-> None]

\* Trainer.train not yet started, for the command-line arguments args
NewRun(args) ==
    [pc |-> "before_train", args |-> args, start_epoch |-> 0, max_epoch |-> 0,
     max_iter |-> 0, epoch |-> 0, iter |-> 0, exc |-> FALSE, log |-> <<>>]

\* the hooks Trainer.train has train so far, in order (history)
Log(r, name) == [r EXCEPT !.log = Append(@, name)]

\* mutant of Supported: every architecture name is accepted
Supported_any(name) == TRUE

\* the architecture names before_train accepts (lines 132-137)
Supported(name) == name \in {"StyleGANv2ADA", "StyleGANv3"}

\* resume_train (lines 431-463): torch.load raises without the file; the
\* checkpoint's "model" entry is loaded, start_epoch is taken from it on a
\* resume and is 0 otherwise.  One checkpoint file is kept, the latest saved.
resume_train(args, d) ==
    IF args.resume
    THEN IF d = None
         THEN [raised |-> TRUE, start_epoch |-> 0, loaded |-> FALSE]
         ELSE [raised |-> FALSE, start_epoch |-> d[1].start_epoch, loaded |-> TRUE]
    ELSE IF args.ckpt # None
         THEN IF d = None
              THEN [raised |-> TRUE, start_epoch |-> 0, loaded |-> FALSE]
              ELSE [raised |-> FALSE, start_epoch |-> 0, loaded |-> TRUE]
         ELSE [raised |-> FALSE, start_epoch |-> 0, loaded |-> FALSE]

\* mutant of MaxEpochOf: the epoch that is only partly needed is dropped
MaxEpochOf_floor(e) ==
    RMul(e.kimgs, <<1000, 1>>)[1] \div (e.train_steps * e.batch_size)

\* self.max_epoch (lines 189-196, 271-278)
MaxEpochOf(e) ==
    LET one_epoch_imgs == e.train_steps * e.batch_size
        imgs == RMul(e.kimgs, <<1000, 1>>)[1]
    IN  (imgs \div one_epoch_imgs) + (IF imgs % one_epoch_imgs # 0 THEN 1 ELSE 0)

\* `for self.epoch in range(self.start_epoch, self.max_epoch)` reaching e
EpochLoop(r, e) ==
    IF e < r.max_epoch THEN [r EXCEPT !.pc = "before_epoch", !.epoch = e]
    ELSE [r EXCEPT !.pc = "after_train"]

\* `for self.iter in range(self.max_iter)` reaching i
IterLoop(r, i) ==
    IF i < r.max_iter THEN [r EXCEPT !.pc = "before_iter", !.iter = i]
    ELSE [r EXCEPT !.pc = "after_epoch"]

\* before_train (lines 126-349): the model, the two optimizers built by
\* exp.get_optimizer(self.base_lr_G, 'G') and (self.base_lr_D, 'D'),
\* resume_train, the loaders, max_epoch and max_iter.  It is called outside
\* the try of Trainer.train, so an exception leaves train at once.
before_train ==
    /\ trainer.stage = "new"
    /\ train.pc = "before_train"
    /\ IF ~Supported(archi_name)
       THEN /\ trainer' = [trainer EXCEPT !.stage = "raised"]
            /\ exp' = exp
            /\ train' = [Log(train, "before_train") EXCEPT !.pc = "raised", !.exc = TRUE]
            /\ UNCHANGED <<augment_pipe_p, ada_kimg, ema_rampup>>
       ELSE LET st == IF archi_name = "StyleGANv2ADA"
                      THEN V2Branch(exp, G_reg_interval, D_reg_interval)
                      ELSE V3Branch(exp, G_reg_interval, D_reg_interval)
                res == resume_train(train.args, disk)
            IN  IF st.raised
                THEN /\ trainer' = [trainer EXCEPT !.stage = "raised",
                                       !.model = TRUE,
                                       !.base_lr_G = st.base_lr_G,
                                       !.base_lr_D = st.base_lr_D]
                     /\ exp' = [exp EXCEPT !.optimizer_cfg = st.optimizer_cfg]
                     /\ train' = [Log(train, "before_train") EXCEPT
                                   !.pc = "raised", !.exc = TRUE]
                     /\ UNCHANGED <<augment_pipe_p, ada_kimg, ema_rampup>>
                ELSE /\ trainer' = [stage |-> IF res.raised THEN "raised" ELSE "ready",
                                    model |-> TRUE,
                                    loaders |-> ~res.raised,
                                    base_lr_G |-> st.base_lr_G,
                                    base_lr_D |-> st.base_lr_D,
                                    optimizer_G |-> st.base_lr_G,
                                    optimizer_D |-> st.base_lr_D]
                     /\ exp' = [exp EXCEPT !.optimizer_cfg = st.optimizer_cfg]
                     /\ train' =
                          IF res.raised
                          THEN [Log(train, "before_train") EXCEPT
                                   !.pc = "raised", !.exc = TRUE]
                          ELSE EpochLoop(
                                   [Log(train, "before_train") EXCEPT
                                       !.start_epoch = res.start_epoch,
                                       !.max_epoch = MaxEpochOf(exp),
                                       !.max_iter = exp.train_steps],
                                   res.start_epoch)
                     \* model.load_state_dict(ckpt["model"]) is outside these
                     \* sources: it may or may not restore augment_pipe.p;
                     \* cur_nimg and batch_idx are plain attributes (lines
                     \* 92-93) that no state dict holds
                     /\ augment_pipe_p' \in
                          (IF res.loaded THEN {augment_pipe_p, disk[1].p}
                           ELSE {augment_pipe_p})
                     \* lines 252-262
                     /\ ada_kimg' =
                          IF archi_name = "StyleGANv3" /\ ~res.raised
                             /\ (train.args.resume \/ train.args.ckpt # None)
                          THEN 100 ELSE ada_kimg
                     /\ ema_rampup' =
                          IF archi_name = "StyleGANv3" /\ ~res.raised
                             /\ (train.args.resume \/ train.args.ckpt # None)
                          THEN None ELSE ema_rampup

BeforeTrain ==
    /\ before_train
    /\ UNCHANGED <<archi_name, modelCfg, calc, disk>>
    /\ UNCHANGED <<cur_nimg, batch_idx, Loss_signs_real, requires_grad, input, npz, last>>

\* ------------------------------------------------------------ Trainer.train
\* before_epoch (lines 356-363)
BeforeEpoch ==
    /\ train.pc = "before_epoch"
    /\ train' = IF Supported(archi_name)
                THEN IterLoop(Log(train, "before_epoch"), 0)
                ELSE [Log(Log(train, "before_epoch"), "raised") EXCEPT
                         !.pc = "after_train", !.exc = TRUE]
    /\ UNCHANGED <<modelCfg, ada_kimg, ema_rampup, modelRun, archi_name, exp, trainer, disk, calc>>

\* before_iter (lines 389-390)
BeforeIter ==
    /\ train.pc = "before_iter"
    /\ train' = [Log(train, "before_iter") EXCEPT !.pc = "train_one_iter"]
    /\ UNCHANGED <<modelCfg, ada_kimg, ema_rampup, modelRun, archi_name, exp, trainer, disk, calc>>

\* the batches the prefetcher hands to train_one_iter, of args.batch_size
\* images: one label tensor per phase or one too few, the reference file
\* recorded from the batch or absent
TrainerBatches ==
    {st \in Staged :
        /\ st[1].N = exp.batch_size
        /\ \/ st[1].numGenC = Len(phases) /\ st[1].c_dim = 0
           \/ st[1].numGenC = Len(phases) - 1 /\ st[1].c_dim = 1
        /\ st[2] \in MatchingNpz(st[1])}

\* mutant of AfterTrainOneIter: an exception is swallowed and the loop goes on
AfterTrainOneIter_goOn(r, raised) ==
    IF raised THEN [Log(r, "raised") EXCEPT !.pc = "after_iter"]
    ELSE [r EXCEPT !.pc = "after_iter"]

\* where Trainer.train goes after train_one_iter: on to after_iter, or, when
\* the call raised, through train_in_iter and train_in_epoch to the finally
\* clause of train (lines 73-78, 81-90)
AfterTrainOneIter(r, raised) ==
    IF raised THEN [Log(r, "raised") EXCEPT !.pc = "after_train", !.exc = TRUE]
    ELSE [r EXCEPT !.pc = "after_iter"]

\* train_one_iter (lines 92-123): the next batch, setup_input, train_iter
TrainOneIter ==
    /\ train.pc = "train_one_iter"
    /\ \E st \in TrainerBatches :
          /\ input' = Some(st[1])
          /\ npz' = st[2]
          /\ train_iter(st[1], st[2])
    /\ train' = AfterTrainOneIter(Log(train, "train_one_iter"), last'.status = "raised")
    /\ UNCHANGED <<modelCfg, ada_kimg, ema_rampup, archi_name, exp, trainer, disk, calc>>

\* after_iter (lines 392-425)
AfterIter ==
    /\ train.pc = "after_iter"
    /\ train' = IterLoop(Log(train, "after_iter"), train.iter + 1)
    /\ UNCHANGED <<modelCfg, ada_kimg, ema_rampup, modelRun, archi_name, exp, trainer, disk, calc>>

\* ckpt_state of save_ckpt (lines 488-493): start_epoch and the state dicts,
\* of which the model keeps what load_state_dict may restore
save_ckpt ==
    disk' = Some([start_epoch |-> train.epoch + 1, p |-> augment_pipe_p])

\* after_epoch (lines 365-371)
AfterEpoch ==
    /\ train.pc = "after_epoch"
    /\ save_ckpt
    /\ train' = EpochLoop(Log(Log(train, "after_epoch"), "save_ckpt"), train.epoch + 1)
    /\ UNCHANGED <<modelCfg, ada_kimg, ema_rampup, modelRun, archi_name, exp, trainer, calc>>

\* after_train (lines 351-354), from the finally clause of train (line 78)
AfterTrain ==
    /\ train.pc = "after_train"
    /\ train' = [Log(train, "after_train") EXCEPT
                    !.pc = IF train.exc THEN "raised" ELSE "done"]
    /\ UNCHANGED <<modelCfg, ada_kimg, ema_rampup, modelRun, archi_name, exp, trainer, disk, calc>>

\* the process is stopped after a checkpoint was saved, or has aborted, and
\* is started again with --resume on that checkpoint: a new experiment, a new
\* Trainer (lines 38-69) and, in before_train, a new model
Restart ==
    /\ disk # None
    /\ ~train.args.resume
    /\ train.pc \in {"before_epoch", "raised"}
    /\ train' = NewRun([resume |-> TRUE, ckpt |-> Some("ckpt")])
    /\ trainer' = NewTrainer
    /\ exp' = [exp EXCEPT !.optimizer_cfg = exp.configured]
    /\ cur_nimg' = 0
    /\ batch_idx' = 0
    /\ Loss_signs_real' = <<>>
    /\ augment_pipe_p' = RZero
    /\ ada_kimg' = AdaKimg
    /\ requires_grad' = TorchDefault
    /\ UNCHANGED ema_rampup
    /\ input' = None
    /\ npz' = None
    /\ last' = NoCall
    /\ UNCHANGED <<modelCfg, archi_name, disk, calc>>

Archis == {"StyleGANv2ADA", "StyleGANv3", "StyleGANv1"}

\* base learning rates per image, in thousandths
LrValues == {RNorm(k, 1000) : k \in 1..MaxLr}

\* configured Adam coefficients, in thousandths
BetaValues == {0, 900, 990}

OptimizerCfgs ==
    [generator : [beta1 : {Beta(b) : b \in BetaValues}, beta2 : {Beta(b) : b \in BetaValues}],
     discriminator : [beta1 : {Beta(b) : b \in BetaValues}, beta2 : {Beta(b) : b \in BetaValues}]]

\* a Trainer after __init__, for every experiment configuration; exp.configured
\* keeps the coefficients as configured
InitTrainer ==
    /\ archi_name \in Archis
    /\ \E cfg \in OptimizerCfgs, lr \in LrValues, glr \in LrValues, dlr \in LrValues :
         exp = [basic_lr_per_img |-> lr, basic_glr_per_img |-> glr,
                basic_dlr_per_img |-> dlr, batch_size |-> MaxBatch,
                optimizer_cfg |-> cfg, configured |-> cfg,
                train_steps |-> 1, kimgs |-> RNorm(MaxBatch, 1000)]
    /\ trainer = NewTrainer
    /\ train = NewRun([resume |-> FALSE, ckpt |-> None])
    /\ disk = None

\* the model the experiment would build from the same intervals, untrained
ModelFresh ==
    /\ G_reg_interval \in RegIntervals
    /\ D_reg_interval \in RegIntervals
    /\ phases = BuildPhases(G_reg_interval, D_reg_interval)
    /\ z_dim \in ZDims
    /\ pl_weight = 2
    /\ r1_gamma = 10
    /\ adjust_p = FALSE
    /\ augment_pipe = FALSE
    /\ ada_interval = MaxAdaInterval
    /\ ada_target = None
    /\ ada_kimg = AdaKimg
    /\ ema_rampup = None
    /\ augment_pipe_p = RZero
    /\ FreshRun

\* the Trainer is not running in the model-level specifications
TrainerIdle ==
    /\ archi_name = "StyleGANv2ADA"
    /\ exp = <<>>
    /\ trainer = <<>>
    /\ train = <<>>
    /\ disk = None

Init == InitModel /\ TrainerIdle /\ calc = NoCalc

InitAda == InitModelAda /\ TrainerIdle /\ calc = NoCalc

InitT == ModelFresh /\ InitTrainer /\ calc = NoCalc

\* the model exp.get_model() builds: every schedule, adaptive augmentation
\* off or on
ModelForTrain ==
    /\ G_reg_interval \in RegIntervals
    /\ D_reg_interval \in RegIntervals
    /\ phases = BuildPhases(G_reg_interval, D_reg_interval)
    /\ z_dim \in ZDims
    /\ pl_weight = 2
    /\ r1_gamma = 10
    /\ adjust_p \in BOOLEAN
    /\ augment_pipe = adjust_p
    /\ ada_interval = MaxAdaInterval
    /\ ada_target = (IF adjust_p THEN RNorm(1, 2) ELSE None)
    /\ ada_kimg = AdaKimg
    /\ ema_rampup = None
    /\ augment_pipe_p = RZero
    /\ FreshRun

\* Trainer.train about to be called, with and without --resume, for every
\* architecture name, schedule and epoch length, one image per batch
InitTrain ==
    /\ ModelForTrain
    /\ archi_name \in Archis
    /\ \E steps \in 1..MaxSteps :
         exp = [basic_lr_per_img |-> RNorm(1, 1000), basic_glr_per_img |-> RNorm(1, 1000),
                basic_dlr_per_img |-> RNorm(1, 1000), batch_size |-> 1,
                optimizer_cfg |-> [generator |-> [beta1 |-> Beta(0), beta2 |-> Beta(990)],
                                   discriminator |-> [beta1 |-> Beta(0), beta2 |-> Beta(990)]],
                configured |-> [generator |-> [beta1 |-> Beta(0), beta2 |-> Beta(990)],
                                discriminator |-> [beta1 |-> Beta(0), beta2 |-> Beta(990)]],
                train_steps |-> steps,
                \* one image more than MaxEpoch - 1 whole epochs
                kimgs |-> RNorm((MaxEpoch - 1) * steps + 1, 1000)]
    /\ trainer = NewTrainer
    /\ \E resume \in BOOLEAN : train = NewRun([resume |-> resume, ckpt |-> None])
    /\ disk = None
    /\ calc = NoCalc

InitFn == ModelFresh /\ TrainerIdle /\ calc = NoCalc

Next == SetupInput \/ TrainIter

NextAda == SetupMatchingInput \/ TrainIter

NextT == BeforeTrain

NextTrain ==
    \/ BeforeTrain
    \/ BeforeEpoch
    \/ BeforeIter
    \/ TrainOneIter
    \/ AfterIter
    \/ AfterEpoch
    \/ AfterTrain
    \/ Restart

NextFn == AccumulateSplit \/ EmaUpdate \/ SoftUpdate \/ RunG

Spec == Init /\ [][Next]_vars

SpecAda == InitAda /\ [][NextAda]_vars

SpecTrainer == InitT /\ [][NextT]_vars

SpecTrain == InitTrain /\ [][NextTrain]_vars

SpecFn == InitFn /\ [][NextFn]_vars

\* the regularization intervals nothing in __init__ (lines 83-89) rejects
NonPositiveIntervals == {Some(k) : k \in -MaxInterval..0}

\* Trainer.train about to be called on a model configured with a zero or
\* negative regularization interval
InitInterval ==
    /\ G_reg_interval \in RegIntervals \cup NonPositiveIntervals
    /\ D_reg_interval \in RegIntervals \cup NonPositiveIntervals
    /\ G_reg_interval \in NonPositiveIntervals \/ D_reg_interval \in NonPositiveIntervals
    /\ phases = BuildPhases(G_reg_interval, D_reg_interval)
    /\ z_dim \in ZDims
    /\ pl_weight = 2
    /\ r1_gamma = 10
    /\ adjust_p = FALSE
    /\ augment_pipe = FALSE
    /\ ada_interval = MaxAdaInterval
    /\ ada_target = None
    /\ ada_kimg = AdaKimg
    /\ ema_rampup = None
    /\ augment_pipe_p = RZero
    /\ FreshRun
    /\ archi_name \in {"StyleGANv2ADA", "StyleGANv3"}
    /\ exp = [basic_lr_per_img |-> RNorm(1, 1000), basic_glr_per_img |-> RNorm(1, 1000),
              basic_dlr_per_img |-> RNorm(1, 1000), batch_size |-> 1,
              optimizer_cfg |-> [generator |-> [beta1 |-> Beta(0), beta2 |-> Beta(990)],
                                 discriminator |-> [beta1 |-> Beta(0), beta2 |-> Beta(990)]],
              configured |-> [generator |-> [beta1 |-> Beta(0), beta2 |-> Beta(990)],
                              discriminator |-> [beta1 |-> Beta(0), beta2 |-> Beta(990)]],
              train_steps |-> MaxSteps,
              kimgs |-> RNorm(MaxEpoch * MaxSteps, 1000)]
    /\ trainer = NewTrainer
    /\ train = NewRun([resume |-> FALSE, ckpt |-> None])
    /\ disk = None
    /\ calc = NoCalc

SpecInterval == InitInterval /\ [][NextTrain]_vars

\* __init__ on networks with any requires_grad flags, for every schedule,
\* with and without an EMA rampup, adaptive augmentation left at its defaults
InitGrad ==
    /\ G_reg_interval \in RegIntervals
    /\ D_reg_interval \in RegIntervals
    /\ phases = BuildPhases(G_reg_interval, D_reg_interval)
    /\ z_dim \in ZDims
    /\ pl_weight = 2
    /\ r1_gamma = 10
    /\ adjust_p = FALSE
    /\ augment_pipe = FALSE
    /\ ada_interval = MaxAdaInterval
    /\ ada_target = None
    /\ ada_kimg = AdaKimg
    /\ ema_rampup \in EmaRampups
    /\ augment_pipe_p = RZero
    /\ cur_nimg = 0
    /\ batch_idx = 0
    /\ Loss_signs_real = <<>>
    /\ requires_grad \in GradFlags
    /\ input = None
    /\ npz = None
    /\ last = NoCall
    /\ TrainerIdle
    /\ calc = NoCalc

SpecGrad == InitGrad /\ [][NextAda]_vars

\* every adaptive-augmentation configuration, the caller staging any batch
SpecAdaStaged == InitAda /\ [][Next]_vars

\* accumulate_gradients called on its own, for every schedule and loss
\* configuration
SpecSync == Init /\ [][AccumulatePasses]_vars

\* ------------------------------------------------------------------ claims
\* the phases a role contributes are exactly those the claim lists
RolePhasesAre(ps, both, main, reg, reg_interval) ==
    IF reg_interval = None
    THEN ps = << [name |-> both, interval |-> 1] >>
    ELSE /\ reg_interval[1] > 0
         /\ ps = << [name |-> main, interval |-> 1],
                    [name |-> reg, interval |-> reg_interval[1]] >>

\* C1: the phase list is the G phases followed by the D phases; a role with
\* reg_interval None contributes exactly '<role>both' at interval 1, a role
\* with reg_interval k > 0 exactly '<role>main' at interval 1 followed by
\* '<role>reg' at interval k; nothing else is in the list.
C1_PhaseSchedule ==
    LET nG == IF G_reg_interval = None THEN 1 ELSE 2
        nD == IF D_reg_interval = None THEN 1 ELSE 2
    IN  /\ Len(phases) = nG + nD
        /\ RolePhasesAre(SubSeq(phases, 1, nG), "Gboth", "Gmain", "Greg", G_reg_interval)
        /\ RolePhasesAre(SubSeq(phases, nG + 1, nG + nD), "Dboth", "Dmain", "Dreg",
                         D_reg_interval)

C1_Witness ==
    /\ G_reg_interval = None
    /\ D_reg_interval = Some(MaxInterval)
    /\ phases = << [name |-> "Gboth", interval |-> 1],
                   [name |-> "Dmain", interval |-> 1],
                   [name |-> "Dreg", interval |-> MaxInterval] >>
    /\ last.status = "returned"

\* phase i of the schedule was executed by the latest call: its gradients
\* were accumulated and its optimizer was stepped
Executed(i) ==
    /\ \E j \in 1..Len(last.trace) :
          last.trace[j].op = "accumulate" /\ last.trace[j].phase = phases[i].name
    /\ \E j \in 1..Len(last.trace) :
          last.trace[j].op = "step" /\ last.trace[j].phase = phases[i].name

\* C2: in every call of train_iter that returns, a phase of the schedule is
\* executed if and only if the batch_idx b at the start of the call satisfies
\* b mod interval = 0.
C2_PhaseRunsIffDue ==
    last.status = "returned" =>
        \A i \in 1..Len(phases) : Executed(i) <=> (last.b % phases[i].interval = 0)

\* C3: after a call of train_iter on a batch of N real images, cur_nimg has
\* grown by exactly N, batch_idx by exactly 1, and the returned losses hold
\* at least loss_Gmain and loss_Dgen.
C3_OneIteration ==
    last.status = "returned" =>
        /\ cur_nimg = last.nimg0 + last.N
        /\ batch_idx = last.b + 1
        /\ {"loss_Gmain", "loss_Dgen"} \subseteq last.losses

\* C4: the augmentation strength augment_pipe.p is never negative.
C4_AugmentPNonNegative == augment_pipe_p[1] >= 0 /\ augment_pipe_p[2] > 0

\* the sum and the count of the signs the controller averaged
BufSum == SeqSum(Concat(last.buf))

BufCount == Len(Concat(last.buf))

\* sign(mean - ada_target), from the buffered signs
Direction ==
    LET d == BufSum * ada_target[2] - ada_target[1] * BufCount
    IN  IF d > 0 THEN 1 ELSE IF d < 0 THEN -1 ELSE 0

\* (batch_size * ada_interval) / (ada_kimg * 1000)
Magnitude == RNorm(last.batch_size * ada_interval, ada_kimg * 1000)

C4_Witness ==
    /\ last.ada = "fired"
    /\ Direction = -1
    /\ RLess(last.p0, Magnitude)
    /\ augment_pipe_p = RZero

\* C5: when the controller fires, the new augment_p is
\* max(0, augment_p + direction * magnitude) with direction =
\* sign(mean of the buffered signs - ada_target) and magnitude =
\* (batch_size * ada_interval) / (ada_kimg * 1000); there is no ceiling.
C5_AdjustmentFormula ==
    last.ada = "fired" =>
        /\ BufCount > 0
        /\ augment_pipe_p =
             RMax(RZero, RAdd(last.p0, RMul(<<Direction, 1>>, Magnitude)))

C5_Witness ==
    /\ last.ada = "fired"
    /\ ada_interval > 1
    /\ Direction = 1
    /\ RLess(<<1, 1>>, augment_pipe_p)

\* C6 as claimed: at a firing, a mean above ada_target strictly increases
\* augment_p, a mean below it strictly decreases augment_p, and a mean equal
\* to it leaves augment_p unchanged.
C6_Original ==
    last.ada = "fired" =>
        /\ Direction = 1 => RLess(last.p0, augment_pipe_p)
        /\ Direction = -1 => RLess(augment_pipe_p, last.p0)
        /\ Direction = 0 => augment_pipe_p = last.p0

\* C6 amended: at a firing, a mean above ada_target strictly increases
\* augment_p; a mean below it strictly decreases augment_p when augment_p was
\* positive and leaves it at 0 when it was 0; a mean equal to it leaves
\* augment_p unchanged.
C6_DirectionWithFloor ==
    last.ada = "fired" =>
        /\ Direction = 1 => RLess(last.p0, augment_pipe_p)
        /\ Direction = -1 =>
              IF RLess(RZero, last.p0)
              THEN RLess(augment_pipe_p, last.p0)
              ELSE augment_pipe_p = RZero /\ last.p0 = RZero
        /\ Direction = 0 => augment_pipe_p = last.p0

C6_Witness ==
    /\ last.ada = "fired"
    /\ Direction = -1
    /\ last.p0 = RZero
    /\ augment_pipe_p = RZero

\* C7: the controller fires only when adaptive augmentation is enabled, and
\* exactly at the end of the iterations whose incremented batch_idx is a
\* multiple of ada_interval; an iteration in which it does not fire leaves
\* augment_p and the buffered signs as they were before the controller's
\* turn; right after a firing the sign buffer is empty.
C7_FiresEveryAdaInterval ==
    last.status = "returned" =>
        /\ last.ada = "fired" <=>
              (adjust_p /\ augment_pipe /\ batch_idx % ada_interval = 0)
        /\ last.ada = "fired" => Loss_signs_real = <<>>
        /\ last.ada # "fired" =>
              augment_pipe_p = last.p0 /\ Loss_signs_real = last.buf

C7_Witness ==
    /\ last.status = "returned"
    /\ ada_interval = 2
    /\ batch_idx = 2
    /\ last.ada = "fired"
    /\ Len(last.buf) >= 2
    /\ Loss_signs_real = <<>>

\* the learning rate a role starts from: basic_lr_per_img * batch_size for
\* StyleGANv2ADA, basic_glr_per_img / basic_dlr_per_img * batch_size for
\* StyleGANv3
RoleLr(role) ==
    LET per_img == IF archi_name = "StyleGANv2ADA" THEN exp.basic_lr_per_img
                   ELSE IF role = "G" THEN exp.basic_glr_per_img
                   ELSE exp.basic_dlr_per_img
    IN  <<per_img[1] * exp.batch_size, per_img[2]>>

RoleInterval(role) == IF role = "G" THEN G_reg_interval ELSE D_reg_interval

\* the learning rate before_train handed to the role's optimizer
RoleOptimizerLr(role) == IF role = "G" THEN trainer.optimizer_G ELSE trainer.optimizer_D

\* C8: for every role whose regularization interval is an integer k > 1, the
\* learning rate passed to the role's optimizer is lr * k / (k + 1), in the
\* StyleGANv2ADA and in the StyleGANv3 branch.
C8_LazyLearningRate ==
    trainer.stage = "ready" =>
        \A role \in {"G", "D"} :
            (RoleInterval(role) # None /\ RoleInterval(role)[1] > 1) =>
                LET k == RoleInterval(role)[1]
                    lr == RoleLr(role)
                    got == RoleOptimizerLr(role)
                IN  /\ got # None
                    /\ got[1][1] * (k + 1) * lr[2] = lr[1] * k * got[1][2]

C8_Witness ==
    /\ trainer.stage = "ready"
    /\ archi_name = "StyleGANv2ADA"
    /\ G_reg_interval = Some(2)
    /\ D_reg_interval = Some(2)
    /\ trainer.optimizer_D = Some(RMul(RoleLr("D"), <<2, 3>>))

RoleCfg(role, cfg) == IF role = "G" THEN cfg.generator ELSE cfg.discriminator

\* C9: when a role's regularization interval is None, before_train builds
\* the role's optimizer with the unscaled base learning rate and leaves the
\* role's beta coefficients as configured, for every combination of
\* intervals and for both architectures.
C9_NoneMeansFullRate ==
    (trainer.stage # "new" /\ archi_name \in {"StyleGANv2ADA", "StyleGANv3"}) =>
        \A role \in {"G", "D"} :
            RoleInterval(role) = None =>
                /\ trainer.stage = "ready"
                /\ RoleOptimizerLr(role) # None
                /\ RoleOptimizerLr(role)[1][1] * RoleLr(role)[2]
                     = RoleLr(role)[1] * RoleOptimizerLr(role)[1][2]
                /\ RoleCfg(role, exp.optimizer_cfg) = RoleCfg(role, exp.configured)

\* C10: within each executed phase, accumulate_gradients is called once per
\* device sub-batch, in device order, with sync true on the last sub-batch
\* only; with a single device the one call has sync = TRUE.
C10_SyncOnLastSubBatch ==
    \A i \in 1..Len(last.trace) :
        last.trace[i].op = "zero_grad" =>
            /\ i + num_gpus + 1 <= Len(last.trace)
            /\ \A r \in 0..(num_gpus - 1) :
                  /\ last.trace[i + 1 + r].op = "accumulate"
                  /\ last.trace[i + 1 + r].phase = last.trace[i].phase
                  /\ last.trace[i + 1 + r].round = r
                  /\ last.trace[i + 1 + r].sync = (r = num_gpus - 1)
            /\ last.trace[i + num_gpus + 1].op = "step"
            /\ last.trace[i + num_gpus + 1].phase = last.trace[i].phase

C10_Witness ==
    /\ last.status = "returned"
    /\ Len(phases) = 4
    /\ Len(last.trace) = 3 * Len(phases)
    /\ \A i \in 1..Len(last.trace) :
          last.trace[i].op = "accumulate" => last.trace[i].sync

\* C11: gradient accumulation is additive: for a fixed phase, running
\* accumulate_gradients on each of k equal sub-batches and summing the
\* returned losses name by name gives, for every loss name, the value that
\* one call over the whole batch returns.
C11_AccumulationAdditive ==
    calc.op = "accumulate_gradients" =>
        /\ DOMAIN calc.split = DOMAIN calc.whole
        /\ \A key \in DOMAIN calc.whole : calc.split[key] = calc.whole[key]

\* beta * ema_old + (1 - beta) * live
Blend(beta, ema_old, live) ==
    RAdd(RMul(beta, ema_old), RMul(RSub(<<1, 1>>, beta), live))

\* C12: the EMA update sets every shadow parameter to
\* beta * ema_old + (1 - beta) * live, pairing live and shadow parameters in
\* the same order; with beta = 1 every shadow parameter is unchanged and with
\* beta = 0 it equals the live parameter; in train_iter and in soft_update.
C12_EmaBlend ==
    (calc.op \in {"ema", "soft_update"} /\ calc.result # None) =>
        /\ Len(calc.result[1]) = Len(calc.shadow)
        /\ \A i \in 1..Len(calc.shadow) :
              calc.result[1][i] = Blend(calc.beta, calc.shadow[i], calc.live[i])
        /\ calc.beta = <<1, 1>> => calc.result[1] = calc.shadow
        /\ calc.beta = RZero => calc.result[1] = calc.live

C12_Witness ==
    /\ calc.op = "ema"
    /\ calc.beta = RNorm(1, 2)
    /\ calc.live = [i \in 1..NumParams |-> IF i = 1 THEN <<1, 1>> ELSE RZero]
    /\ calc.shadow = [i \in 1..NumParams |-> IF i = 1 THEN RZero ELSE <<1, 1>>]
    /\ calc.result = Some([i \in 1..NumParams |-> RNorm(1, 2)])

\* the phase-name-to-flags mapping as claimed
ClaimedKeys(phase) ==
    CASE phase = "Gmain" -> {"loss_Gmain"}
      [] phase = "Greg" -> {"loss_Gpl"}
      [] phase = "Dmain" -> {"loss_Dgen", "loss_Dreal"}
      [] phase = "Dreg" -> {"loss_Dr1"}
      [] phase = "Gboth" -> {"loss_Gmain", "loss_Gpl"}
      [] phase = "Dboth" -> {"loss_Dgen", "loss_Dreal", "loss_Dr1"}

\* C13 as claimed: for every valid phase name accumulate_gradients returns
\* exactly the loss names of the mapping Gmain -> {loss_Gmain},
\* Greg -> {loss_Gpl}, Dmain -> {loss_Dgen, loss_Dreal}, Dreg -> {loss_Dr1},
\* Gboth -> {loss_Gmain, loss_Gpl}, Dboth -> {loss_Dgen, loss_Dreal, loss_Dr1}.
C13_Original ==
    \A i \in 1..Len(last.trace) :
        last.trace[i].op = "accumulate" =>
            last.trace[i].keys = ClaimedKeys(last.trace[i].phase)

\* C13 amended: accumulate_gradients returns exactly the loss names of the
\* mapping, except that loss_Gpl is left out when pl_weight is 0 and loss_Dr1
\* is left out when r1_gamma is 0.
C13_LossKeysPerPhase ==
    \A i \in 1..Len(last.trace) :
        last.trace[i].op = "accumulate" =>
            last.trace[i].keys =
                (ClaimedKeys(last.trace[i].phase)
                    \ (IF pl_weight = 0 THEN {"loss_Gpl"} ELSE {}))
                    \ (IF r1_gamma = 0 THEN {"loss_Dr1"} ELSE {})

C13_Witness ==
    /\ pl_weight = 0
    /\ r1_gamma # 0
    /\ \E i \in 1..Len(last.trace) :
          /\ last.trace[i].op = "accumulate"
          /\ last.trace[i].phase = "Greg"
          /\ last.trace[i].keys = {}
    /\ \E i \in 1..Len(last.trace) :
          /\ last.trace[i].op = "accumulate"
          /\ last.trace[i].phase = "Dreg"
          /\ last.trace[i].keys = {"loss_Dr1"}


\* the index, counted from the start of an uninterrupted run, of the
\* iteration Trainer.train is in
GlobalIter == train.epoch * train.max_iter + train.iter

\* the latest call was made by train_one_iter on a batch with one label
\* tensor per phase and has returned
MatchingCallReturned ==
    /\ train.pc = "after_iter"
    /\ last.status = "returned"
    /\ input # None
    /\ input[1].numGenC = Len(phases)

\* C14: in a run that was saved with save_ckpt at an epoch boundary and
\* resumed with resume_train, as in an uninterrupted run, the iteration with
\* global index g executes exactly the phases whose interval divides g, and
\* the augmentation controller fires exactly when it is enabled and
\* ada_interval divides g + 1.
C14_ResumeKeepsSchedule ==
    MatchingCallReturned =>
        /\ \A i \in 1..Len(phases) :
              Executed(i) <=> (GlobalIter % phases[i].interval = 0)
        /\ last.ada = "fired" <=>
              (adjust_p /\ augment_pipe /\ (GlobalIter + 1) % ada_interval = 0)

\* the same statement for the runs that were never resumed
C14_Uninterrupted == ~train.args.resume => C14_ResumeKeepsSchedule


\* C15: with an archi_name other than 'StyleGANv2ADA' and 'StyleGANv3',
\* before_train raises before any model, optimizer or data loader is built,
\* Trainer.train ends there, and no training iteration is ever run.
C15_UnsupportedArchiRaisesAtSetup ==
    (archi_name \notin {"StyleGANv2ADA", "StyleGANv3"} /\ train.pc # "before_train") =>
        /\ train.pc = "raised"
        /\ train.exc
        /\ train.log = <<"before_train">>
        /\ trainer.stage = "raised"
        /\ ~trainer.model
        /\ ~trainer.loaders
        /\ trainer.optimizer_G = None
        /\ trainer.optimizer_D = None
        /\ last.status = "none"
        /\ batch_idx = 0

C15_Witness ==
    /\ archi_name = "StyleGANv1"
    /\ train.pc = "raised"
    /\ train.log = <<"before_train">>
    /\ trainer.stage = "raised"


\* a regularization interval of the configuration is zero or negative
NonPositiveInterval ==
    \/ G_reg_interval # None /\ G_reg_interval[1] <= 0
    \/ D_reg_interval # None /\ D_reg_interval[1] <= 0

\* C16: with G_reg_interval or D_reg_interval <= 0, setting up training
\* aborts before the first training iteration starts: Trainer.train ends in
\* before_train, train_iter is never called, and no phase is executed with a
\* non-positive interval or gain.
C16_NonPositiveIntervalAbortsAtSetup ==
    NonPositiveInterval =>
        /\ train.pc # "before_train" =>
              train.pc = "raised" /\ train.log = <<"before_train">>
        /\ last.status = "none"
        /\ \A j \in 1..Len(last.trace) :
              last.trace[j].op = "accumulate" => last.trace[j].gain > 0


\* the staged batch carries labels and a number of per-phase generated-label
\* tensors other than the number of phases
LabelCountMismatch ==
    /\ input # None
    /\ input[1].c_dim > 0
    /\ input[1].numGenC # Len(phases)

\* C17: a call of train_iter on a batch whose number of per-phase
\* generated-label tensors differs from the number of phases raises.
C17_MismatchRaises ==
    (LabelCountMismatch /\ last.status # "none") => last.status = "raised"


\* the positions of the log at which an exception left train_one_iter
RaisedAt == {j \in 1..Len(train.log) : train.log[j] = "raised"}

\* an exception raised inside train_one_iter propagates out of
\* Trainer.train: nothing but after_train runs after it, after_train runs
\* exactly once, and train ends with the exception
C18_ExceptionPropagates ==
    /\ train.pc = "after_iter" => last.status = "returned"
    /\ \A k \in RaisedAt :
          /\ k > 1 /\ train.log[k - 1] = "train_one_iter"
          /\ train.exc
          /\ \/ train.pc = "after_train" /\ Len(train.log) = k
             \/ /\ train.pc = "raised"
                /\ Len(train.log) = k + 1
                /\ train.log[k + 1] = "after_train"

\* an iteration that train_one_iter completed has executed every due phase,
\* advanced both counters, and run the augmentation update when it was due
C18_IterationComplete ==
    train.pc = "after_iter" =>
        /\ \A i \in 1..Len(phases) : Due(phases[i], last.b) => Executed(i)
        /\ cur_nimg = last.nimg0 + last.batch_size
        /\ batch_idx = last.b + 1
        /\ AdaDue(batch_idx) => last.ada = "fired"

\* C18: a training iteration either fully completes (all due phases, counter
\* increments, augmentation update) or the process aborts: an exception
\* raised inside train_one_iter propagates out of Trainer.train, no further
\* iteration, epoch hook or checkpoint save runs after it, and after_train
\* runs exactly once before the exception leaves train.
C18_CompletesOrAborts == C18_IterationComplete /\ C18_ExceptionPropagates

\* Trainer.train has ended with an exception from train_one_iter after
\* after_train ran
C18_Aborted ==
    /\ train.pc = "raised"
    /\ RaisedAt # {}
    /\ train.log[Len(train.log)] = "after_train"
    /\ last.status = "raised"


\* the batches a replica can be handed that keep the input contract: one
\* label tensor per phase, the reference file recorded from the batch
ConformingBatches ==
    {st \in UNION {{<<inp, file>> : file \in MatchingNpz(inp)} : inp \in MatchingInputs} :
        ~SetupRaises(st[1], st[2])}

\* what the phase loop of a replica holding this state's schedule and
\* batch_idx does on the batch st when its discriminator outputs have the
\* signs sg
ReplicaRun(st, sg) ==
    RunPhases(1, Visited(st[1], st[2]), batch_idx, Rounds(st[1], st[2]),
              BatchSize(st[1], st[2]), sg,
              [trace |-> <<>>, losses |-> {}, buf |-> Loss_signs_real, k |-> 0,
               req |-> requires_grad])

\* the ordered list of phase operations with their sync flags
PhaseList(trace) ==
    [j \in 1..Len(trace) |->
        <<trace[j].op, trace[j].phase, trace[j].round, trace[j].sync>>]

\* the sign arrays a replica's discriminator can produce on the batch st
ReplicaSigns(st) ==
    [1..ReplicaRun(st, <<>>).k -> SignArrays(BatchSize(st[1], st[2]))]

PhaseIndex(name) == CHOOSE i \in 1..Len(phases) : phases[i].name = name

\* C20: within one train_iter call the executed phases appear in schedule
\* order (generator phases before discriminator phases, a role's main phase
\* before its regularization phase), every phase is zero_grad, its rounds,
\* then its optimizer step, and a phase's gradients are zeroed only after the
\* previous phase's optimizer step.
C20_PhasesInScheduleOrder ==
    LET t == last.trace
    IN  /\ \A j \in 1..Len(t), k \in 1..Len(t) :
              j < k =>
                 /\ PhaseIndex(t[j].phase) <= PhaseIndex(t[k].phase)
                 /\ ~(HasD(t[j].phase) /\ HasG(t[k].phase))
                 /\ ~(t[j].phase = "Greg" /\ t[k].phase = "Gmain")
                 /\ ~(t[j].phase = "Dreg" /\ t[k].phase = "Dmain")
        /\ \A j \in 1..Len(t) :
              /\ t[j].op = "zero_grad" =>
                    /\ j = 1 \/ (t[j - 1].op = "step" /\ t[j - 1].phase # t[j].phase)
                    /\ j < Len(t) /\ t[j + 1].phase = t[j].phase
              /\ t[j].op = "accumulate" =>
                    /\ j > 1 /\ t[j - 1].phase = t[j].phase /\ t[j - 1].op # "step"
                    /\ j < Len(t) /\ t[j + 1].phase = t[j].phase
              /\ t[j].op = "step" =>
                    /\ j > 1 /\ t[j - 1].phase = t[j].phase /\ t[j - 1].op # "step"
                    /\ j = Len(t) \/ t[j + 1].op = "zero_grad"

\* a call that executed all four phases of a lazily regularized schedule
C20_Witness ==
    /\ last.status = "returned"
    /\ Len(phases) = 4
    /\ \A i \in 1..4 : Executed(i)
    /\ last.trace[1].phase = "Gmain"
    /\ last.trace[Len(last.trace)].phase = "Dreg"


\* the positions of a phase's events of one kind in the trace of the call
EventsOf(name, op) ==
    {j \in 1..Len(last.trace) : last.trace[j].phase = name /\ last.trace[j].op = op}

\* C21: for every phase a call of train_iter executed, the gradients of the
\* role's optimizer are zeroed exactly once, before the first sub-batch; then
\* every sub-batch goes through accumulate_gradients; then the role's
\* optimizer steps exactly once. accumulate_gradients touches no optimizer,
\* a G phase never touches optimizer_D and a D phase never optimizer_G.
C21_ZeroAccumulateStep ==
    last.status = "returned" =>
    \A t \in {last.trace} : \A rounds \in {Rounds(input[1], npz)} :
       /\ \A j \in 1..Len(t) :
             \E zero \in {EventsOf(t[j].phase, "zero_grad")},
                acc \in {EventsOf(t[j].phase, "accumulate")},
                step \in {EventsOf(t[j].phase, "step")} :
                /\ Cardinality(zero) = 1
                /\ Cardinality(step) = 1
                /\ {t[k].round : k \in acc} = 0..(rounds - 1)
                /\ Cardinality(acc) = rounds
                /\ \A z \in zero, a \in acc, st \in step : z < a /\ a < st
       /\ \A j \in 1..Len(t) :
             /\ t[j].op = "accumulate" => t[j].opt = "none"
             /\ t[j].op \in {"zero_grad", "step"} =>
                   t[j].opt = (IF t[j].phase \in {"Gmain", "Greg", "Gboth"}
                               THEN "optimizer_G" ELSE "optimizer_D")
             /\ t[j].phase \in {"Gmain", "Greg", "Gboth"} => t[j].opt # "optimizer_D"
             /\ t[j].phase \in {"Dmain", "Dreg", "Dboth"} => t[j].opt # "optimizer_G"

\* a call that ran a generator phase and a discriminator phase, each zeroing
\* and stepping its own optimizer
C21_Witness ==
    /\ last.status = "returned"
    /\ \E j \in EventsOf("Gmain", "zero_grad") : last.trace[j].opt = "optimizer_G"
    /\ \E j \in EventsOf("Dreg", "step") : last.trace[j].opt = "optimizer_D"
    /\ EventsOf("Dreg", "accumulate") # {}


\* ema_kimg * 1000 as a rational
EmaFullNimg == RMul(ema_kimg, <<1000, 1>>)

\* C22: every train_iter call that returns has run the EMA update exactly
\* once, after the phases and their optimizer steps and whether or not a
\* regularization phase ran; it uses ema_nimg = ema_kimg * 1000, or the
\* smaller of that and cur_nimg * ema_rampup when a rampup is configured,
\* with cur_nimg the number of images before this batch; on the first
\* iteration with a rampup the blend factor is 0 and blending with it makes
\* the EMA parameters equal to the live ones.
C22_EmaOncePerCall ==
    last.status = "returned" =>
       /\ Len(last.post) = 1
       /\ \A j \in 1..Len(last.trace) : last.trace[j].op # "ema"
       /\ \A e \in {last.post[1]} :
             /\ e.op = "ema"
             \* the networks the phases trained are frozen again
             /\ ~e.req.G /\ ~e.req.D
             /\ e.cur_nimg = last.nimg0
             /\ e.cur_nimg = cur_nimg - last.batch_size
             /\ ema_rampup = None => e.ema_nimg = EmaFullNimg
             /\ ema_rampup # None =>
                   \A capped \in {RMul(<<last.nimg0, 1>>, ema_rampup[1])} :
                      e.ema_nimg = (IF RLess(capped, EmaFullNimg) THEN capped
                                    ELSE EmaFullNimg)
             /\ ~e.ema_beta.zero =>
                   e.ema_beta.exponent =
                      RNorm(last.batch_size * e.ema_nimg[2], e.ema_nimg[1])
             /\ (ema_rampup # None /\ last.nimg0 = 0) =>
                   /\ e.ema_beta.zero
                   /\ \A p \in Params, p_ema \in Params :
                         ema_update(p_ema, p, RZero) = p

\* the second call with a rampup, on a batch whose regularization phases are
\* not due: the rampup caps ema_nimg below ema_kimg * 1000
C22_Witness ==
    /\ last.status = "returned"
    /\ ema_rampup # None
    /\ last.b = 1
    /\ EventsOf("Gmain", "step") # {} /\ EventsOf("Dmain", "step") # {}
    /\ EventsOf("Greg", "step") = {} /\ EventsOf("Dreg", "step") = {}
    /\ Len(last.post) = 1
    /\ RLess(last.post[1].ema_nimg, EmaFullNimg)
    /\ ~last.post[1].ema_beta.zero


\* C23: the EMA copies never receive gradients and are written by the
\* blending step only: no zero_grad, accumulate_gradients or optimizer step
\* of a call runs them forward or writes their parameters or gradients, the
\* one EMA step of a returned call writes their parameters, and after every
\* returned call their gradient tracking is off.
C23_EmaWrittenByBlendOnly ==
    /\ \A j \in 1..Len(last.trace) :
          /\ last.trace[j].writes \cap {"param_ema", "grad_ema"} = {}
          /\ \A k \in 1..Len(last.trace[j].passes) :
                last.trace[j].passes[k].net \in {"G", "D"}
    /\ last.status = "returned" =>
          /\ ~requires_grad.ema
          /\ {k \in 1..Len(last.post) : "param_ema" \in last.post[k].writes} = {1}
          /\ last.post[1].op = "ema"
          /\ ~last.post[1].req.ema

\* a call on a model whose EMA copies were handed over with gradient
\* tracking on: it ran generator and discriminator phases and left the
\* copies frozen
C23_Witness ==
    /\ last.status = "returned"
    /\ last.trace # <<>>
    /\ last.trace[1].req.ema
    /\ EventsOf("Dmain", "accumulate") # {}
    /\ ~requires_grad.ema
    /\ last.post[1].writes = {"param_ema"}


\* adaptive augmentation is enabled: adjust_p is set and there is a pipe
AdaEnabled == adjust_p /\ augment_pipe

\* C24: with adaptive augmentation disabled the sign buffer is empty in
\* every reachable state, no call of train_iter appends to it, and the
\* augmentation strength after a call is the one before it.
C24_DisabledAdaKeepsBufferEmpty ==
    ~AdaEnabled =>
       /\ Loss_signs_real = <<>>
       /\ last.buf = <<>>
       /\ last.ada = "off"
       /\ last.status # "none" => augment_pipe_p = last.p0

\* two calls have returned, each with a discriminator phase on real images,
\* on a model that has a pipe of strength 1 but adjust_p off
C24_Witness ==
    /\ ~adjust_p /\ augment_pipe
    /\ augment_pipe_p = RNorm(1, 1)
    /\ last.status = "returned"
    /\ batch_idx = 2
    /\ \E j \in 1..Len(last.trace) :
          last.trace[j].op = "accumulate" /\ "loss_Dreal" \in last.trace[j].keys


\* the train_iter calls that returned since the heuristic last fired
CallsSinceFiring == batch_idx % ada_interval

\* C25: with adaptive augmentation enabled the sign buffer holds one entry
\* per train_iter call completed since the heuristic last fired, and
\* ada_interval entries when it fires, whichever discriminator phases ran.
C25_OneEntryPerBatch ==
    (AdaEnabled /\ last.status # "raised") =>
       /\ Len(Loss_signs_real) = CallsSinceFiring
       /\ last.ada = "fired" => Len(last.buf) = ada_interval


\* the events of the call's trace that belong to phases of one role
RoleEvents(names) == {j \in 1..Len(last.trace) : last.trace[j].phase \in names}

\* C26: during every discriminator phase the generator is frozen: mapping
\* and synthesis have requires_grad off from the phase's zero_grad to its
\* step, every forward pass of the generator in the phase gets sync=False,
\* and no operation of the phase writes a generator parameter or gradient or
\* works on optimizer_G.
C26_GeneratorFrozenInDPhases ==
    \A j \in RoleEvents({"Dmain", "Dreg", "Dboth"}) : \A e \in {last.trace[j]} :
       /\ ~e.req.G
       /\ \A k \in 1..Len(e.passes) : e.passes[k].net = "G" => ~e.passes[k].sync
       /\ e.writes \cap {"param_G", "grad_G"} = {}
       /\ e.opt # "optimizer_G"

\* a model handed over with requires_grad on: the discriminator's main phase
\* has run the generator forward to make fake images
C26_Witness ==
    /\ last.status = "returned"
    /\ last.trace # <<>>
    /\ last.trace[1].req.G
    /\ \E j \in RoleEvents({"Dmain"}) : \E k \in 1..Len(last.trace[j].passes) :
          /\ last.trace[j].passes[k].net = "G"
          /\ last.trace[j].passes[k].term = "Dgen"
          /\ last.trace[j].sync

\* C27: during every generator phase, the first one after construction
\* included, the discriminator has requires_grad off and the phase writes no
\* discriminator gradient; in every accumulate_gradients call exactly the
\* live networks of the phase's role have requires_grad on.
C27_DiscriminatorFrozenInGPhases ==
    /\ \A j \in RoleEvents({"Gmain", "Greg", "Gboth"}) :
          /\ ~last.trace[j].req.D
          /\ "grad_D" \notin last.trace[j].writes
    /\ \A j \in 1..Len(last.trace) :
          last.trace[j].op = "accumulate" =>
             /\ last.trace[j].req.G = HasG(last.trace[j].phase)
             /\ last.trace[j].req.D = HasD(last.trace[j].phase)


\* C28: run_G mixes styles with the style_mixing_prob the model was
\* constructed with: the mixing branch is entered exactly when the configured
\* value is positive, and with the default 0.9 a draw below it replaces the
\* style codes from the drawn layer on.
C28_StyleMixingAsConfigured ==
    calc.op = "run_G" =>
       /\ calc.result.mixing <=> RLess(RZero, calc.configured)
       /\ (RLess(RZero, calc.configured) /\ RLess(calc.rand, calc.configured)) =>
             calc.result.cutoff < calc.num_ws


\* C29: train_iter works on the current input batch only: a call on a batch
\* with one label tensor per phase returns whether or not a reference file
\* is on disk, and the images it counts are the input's, never a file's.
C29_NoReferenceFileNeeded ==
    (input # None /\ last.status # "none" /\ input[1].numGenC = Len(phases)) =>
       /\ last.status = "returned"
       /\ last.batch_size = input[1].N


\* C30: after before_train every lazily regularized role has the betas
\* beta ** (k / (k + 1)) of its own configured beta1 and beta2 and its own
\* interval k, scaled once: the discriminator's come from the
\* discriminator's configuration and D_reg_interval only.
C30_OwnBetasScaledOnce ==
    trainer.stage = "ready" =>
        \A role \in {"G", "D"} :
            RoleInterval(role) # None =>
                \A k \in {RoleInterval(role)} :
                   /\ RoleCfg(role, exp.optimizer_cfg).beta1
                        = Pow(RoleCfg(role, exp.configured).beta1, MbRatio(k))
                   /\ RoleCfg(role, exp.optimizer_cfg).beta2
                        = Pow(RoleCfg(role, exp.configured).beta2, MbRatio(k))


\* C31: whenever the adaptive augmentation heuristic is due at the end of a
\* train_iter call, the sign buffer is non-empty and the mean is defined:
\* the call never raises there, and a firing has at least one entry from
\* each of the ada_interval batches since the previous firing.
C31_BufferNonEmptyAtFiring ==
    AdaEnabled =>
       /\ last.ada # "raised"
       /\ last.ada = "fired" => Len(last.buf) >= ada_interval


\* the network of the role a phase trains
OwnNet(phase) == IF phase \in {"Gmain", "Greg", "Gboth"} THEN "G" ELSE "D"

\* the positions of the evaluated call's passes that are given sync=True
SyncedPasses == {k \in 1..Len(calc.passes) : calc.passes[k].sync}

\* the positions of its passes through the network of the phase's role
OwnPasses == {k \in 1..Len(calc.passes) : calc.passes[k].net = OwnNet(calc.phase)}

\* C32 as stated: every accumulate_gradients call made with sync=True runs
\* exactly one forward pass with synchronization enabled.
C32_Original ==
    (calc.op = "forward_passes" /\ calc.sync) => Cardinality(SyncedPasses) = 1

\* C32: in an accumulate_gradients call made with sync=True that evaluates
\* a loss term, exactly one forward pass gets sync=True: the last pass
\* through the networks of the role being trained (the path-length pass when
\* it runs, otherwise the Gmain pass; for D phases the real-image pass).
\* Passes through the other role's networks get sync=False, with sync=False
\* no pass gets sync=True, and only a pass with sync=False can run inside
\* no_sync. A Greg call with pl_weight = 0 and a Dreg call with r1_gamma = 0
\* run no forward pass at all.
C32_OneSyncedPass ==
    calc.op = "forward_passes" =>
       /\ \A k \in SyncedPasses : k \in OwnPasses
       /\ \A k \in 1..Len(calc.passes) : calc.passes[k].no_sync => ~calc.passes[k].sync
       /\ ~calc.sync => SyncedPasses = {}
       /\ (calc.sync /\ calc.passes # <<>>) =>
             /\ OwnPasses # {}
             /\ SyncedPasses = {CHOOSE k \in OwnPasses : \A j \in OwnPasses : j <= k}
             /\ \A k \in SyncedPasses :
                   calc.passes[k].term =
                      (IF OwnNet(calc.phase) = "D" THEN "Dreal"
                       ELSE IF calc.phase \in {"Greg", "Gboth"} /\ pl_weight # 0
                       THEN "Gpl" ELSE "Gmain")
       /\ calc.passes = <<>> <=>
             \/ calc.phase = "Greg" /\ pl_weight = 0
             \/ calc.phase = "Dreg" /\ r1_gamma = 0

\* a Gboth call with sync=True and the path-length term on: the Gmain pass
\* runs unsynchronized, the path-length pass after it is the synchronized one
C32_Witness ==
    /\ calc.op = "forward_passes"
    /\ calc.sync
    /\ calc.phase = "Gboth"
    /\ pl_weight # 0
    /\ Len(calc.passes) = 3
    /\ ~calc.passes[1].sync /\ calc.passes[1].term = "Gmain"
    /\ calc.passes[3].sync /\ calc.passes[3].term = "Gpl"

\* ---------------------------------------------------------------------- C33
RECURSIVE Repeat(_, _)
Repeat(s, n) == IF n <= 0 THEN <<>> ELSE s \o Repeat(s, n - 1)

IsPrefix(s, t) == Len(s) <= Len(t) /\ SubSeq(t, 1, Len(s)) = s

\* the hooks of one epoch of max_iter iterations, after_epoch saving the
\* checkpoint
EpochHooks(max_iter) ==
    <<"before_epoch">>
       \o Repeat(<<"before_iter", "train_one_iter", "after_iter">>, max_iter)
       \o <<"after_epoch", "save_ckpt">>

\* the hooks of a whole call of Trainer.train in which nothing raises
TrainHooks(r) ==
    <<"before_train">>
       \o Repeat(EpochHooks(r.max_iter), r.max_epoch - r.start_epoch)
       \o <<"after_train">>

\* the hooks that ran before the first exception inside the epoch loop
BeforeRaise(log) ==
    IF \E j \in 1..Len(log) : log[j] = "raised"
    THEN SubSeq(log, 1, (CHOOSE j \in 1..Len(log) :
                            /\ log[j] = "raised"
                            /\ \A k \in 1..(j - 1) : log[k] # "raised") - 1)
    ELSE log

\* the checkpoints the current call of Trainer.train has saved
SavedCkpts == Cardinality({j \in 1..Len(train.log) : train.log[j] = "save_ckpt"})

\* max_epoch is the smallest integer with
\* max_epoch * (train_steps * batch_size) >= kimgs * 1000
C33_MaxEpochIsCeiling ==
    trainer.stage = "ready" =>
       LET one_epoch_imgs == exp.train_steps * exp.batch_size
           imgs == RMul(exp.kimgs, <<1000, 1>>)[1]
       IN  /\ train.max_epoch * one_epoch_imgs >= imgs
           /\ (train.max_epoch - 1) * one_epoch_imgs < imgs
           /\ train.max_iter = exp.train_steps

\* the checkpoint on disk after the k-th after_epoch of a call holds
\* start_epoch = the finished epoch index + 1
C33_CkptStartEpoch ==
    SavedCkpts >= 1 =>
       /\ disk # None
       /\ disk[1].start_epoch = train.start_epoch + SavedCkpts

\* C33 as stated: every call of Trainer.train that has ended ran before_train,
\* then for each epoch from start_epoch to max_epoch - 1 before_epoch,
\* max_iter times before_iter, train_one_iter, after_iter, then after_epoch
\* with its checkpoint, and after_train once at the end
C33_Original ==
    train.pc \in {"done", "raised"} => train.log = TrainHooks(train)

\* C33: Trainer.train runs before_train once; when before_train raises,
\* nothing else runs, after_train included.  Otherwise the hooks run in the
\* order before_epoch, max_iter times (before_iter, train_one_iter,
\* after_iter), after_epoch for each epoch from start_epoch to
\* max_epoch - 1, every after_epoch saving a checkpoint whose start_epoch is
\* the finished epoch index + 1, until a hook raises: the loops end there.
\* after_train runs exactly once after the last hook of the loops, raised or
\* not; a call in which nothing raises runs every epoch in full.  max_epoch
\* is the smallest integer with
\* max_epoch * (train_steps * batch_size) >= kimgs * 1000.
C33_HookOrder ==
    /\ C33_MaxEpochIsCeiling
    /\ C33_CkptStartEpoch
    /\ trainer.stage = "new" => train.log = <<>>
    /\ trainer.stage = "raised" =>
          /\ train.log = <<"before_train">>
          /\ train.pc = "raised"
    /\ trainer.stage = "ready" =>
          LET ran == BeforeRaise(train.log)
              rest == SubSeq(train.log, Len(ran) + 1, Len(train.log))
              hooks == TrainHooks(train)
          IN  /\ IsPrefix(ran, hooks)
              /\ train.pc = "done" <=> train.log = hooks
              /\ ran # train.log =>
                    /\ Len(ran) < Len(hooks) - 1
                    /\ rest \in {<<"raised">>, <<"raised", "after_train">>}
                    /\ train.pc = (IF Len(rest) = 2 THEN "raised" ELSE "after_train")
              /\ train.pc = "raised" <=> ran # train.log /\ Len(rest) = 2

\* a call that ran two epochs of two iterations each to the end, its number
\* of epochs rounded up, and left the checkpoint of the last epoch
C33_Witness ==
    /\ train.pc = "done"
    /\ train.max_iter = 2
    /\ train.max_epoch - train.start_epoch = 2
    /\ train.log = TrainHooks(train)
    /\ Len(train.log) = 20
    /\ RMul(exp.kimgs, <<1000, 1>>)[1] % (exp.train_steps * exp.batch_size) # 0
    /\ disk # None /\ disk[1].start_epoch = train.max_epoch

\* a call that ended by an exception of train_one_iter: after_iter and the
\* remaining iterations did not run, after_train did
C33_Aborted ==
    /\ train.pc = "raised"
    /\ trainer.stage = "ready"
    /\ train.log # TrainHooks(train)
    /\ train.log[Len(train.log)] = "after_train"

\* ------------------------------------------------- no_weight_gradients, C34
\* weight_gradients_disabled = False at import (line 21), no scope entered.
\* olds holds the local `old` of every suspended no_weight_gradients
\* generator, outermost first; left and raised are history: the scopes the
\* last step left, and whether an exception ever left a scope.
NoScope ==
    [op |-> "scope", weight_gradients_disabled |-> FALSE, olds |-> <<>>,
     left |-> <<>>, raised |-> FALSE]

Scope == IF calc.op = "scope" THEN calc ELSE NoScope

\* no_weight_gradients up to its yield (lines 25-28)
no_weight_gradients_enter(c) ==
    [c EXCEPT !.olds = Append(@, c.weight_gradients_disabled),
              !.weight_gradients_disabled = TRUE,
              !.left = <<>>]

\* the with block ends normally: the generator of the innermost scope is
\* resumed after its yield (line 29)
no_weight_gradients_exit(c) ==
    LET old == c.olds[Len(c.olds)]
    IN  [c EXCEPT !.olds = SubSeq(@, 1, Len(@) - 1),
                  !.weight_gradients_disabled = old,
                  !.left = <<[entry |-> old, after |-> old, how |-> "exit"]>>]

\* an exception raised in the with block is thrown into the generators of
\* the k innermost scopes at their yield (line 28): there is no try/finally
\* around it, so each generator ends there and line 29 does not run
no_weight_gradients_throw(c, k) ==
    [c EXCEPT !.olds = SubSeq(@, 1, Len(@) - k),
              !.left = [i \in 1..k |->
                          [entry |-> c.olds[Len(c.olds) - i + 1],
                           after |-> c.weight_gradients_disabled,
                           how |-> "exception"]],
              !.raised = TRUE]

\* `with ..., no_weight_gradients(): torch.autograd.grad(...)` of
\* accumulate_gradients (lines 222-223 and 296-297), torch.autograd.grad
\* returning or raising
grads(c, raises) ==
    IF raises THEN no_weight_gradients_throw(no_weight_gradients_enter(c), 1)
    ELSE no_weight_gradients_exit(no_weight_gradients_enter(c))

ScopeIdle == calc.op \in {"none", "scope"}

EnterScope ==
    /\ ScopeIdle
    /\ Len(Scope.olds) < MaxDepth
    /\ calc' = no_weight_gradients_enter(Scope)
    /\ UNCHANGED <<modelCfg, ada_kimg, ema_rampup, modelRun, trainerVars>>

ExitScope ==
    /\ ScopeIdle
    /\ Scope.olds # <<>>
    /\ calc' = no_weight_gradients_exit(Scope)
    /\ UNCHANGED <<modelCfg, ada_kimg, ema_rampup, modelRun, trainerVars>>

\* the exception is handled outside the k innermost scopes
RaiseInScope ==
    /\ ScopeIdle
    /\ \E k \in 1..Len(Scope.olds) : calc' = no_weight_gradients_throw(Scope, k)
    /\ UNCHANGED <<modelCfg, ada_kimg, ema_rampup, modelRun, trainerVars>>

\* the path-length gradient of a Greg or Gboth phase (lines 222-223)
PlGrads ==
    /\ ScopeIdle
    /\ Scope.olds = <<>>
    /\ \E i \in 1..Len(phases) : do_Gpl(phases[i].name)
    /\ \E raises \in BOOLEAN : calc' = grads(Scope, raises)
    /\ UNCHANGED <<modelCfg, ada_kimg, ema_rampup, modelRun, trainerVars>>

\* the R1 gradient of a Dreg or Dboth phase (lines 296-297)
R1Grads ==
    /\ ScopeIdle
    /\ Scope.olds = <<>>
    /\ \E i \in 1..Len(phases) : do_Dr1(phases[i].name)
    /\ \E raises \in BOOLEAN : calc' = grads(Scope, raises)
    /\ UNCHANGED <<modelCfg, ada_kimg, ema_rampup, modelRun, trainerVars>>

NextScope == EnterScope \/ ExitScope \/ RaiseInScope \/ PlGrads \/ R1Grads

SpecScope == Init /\ [][NextScope]_vars

\* inside a scope the flag is true
C34_TrueInScope ==
    (calc.op = "scope" /\ calc.olds # <<>>) => calc.weight_gradients_disabled

\* as long as no exception has left a scope, every scope that was left
\* restored the flag and the flag is false outside the scopes, at any
\* nesting depth
C34_NormalExitRestores ==
    (calc.op = "scope" /\ ~calc.raised) =>
       /\ \A i \in 1..Len(calc.left) : calc.left[i].after = calc.left[i].entry
       /\ calc.olds = <<>> => ~calc.weight_gradients_disabled

\* C34: the no_weight_gradients scope sets weight_gradients_disabled to true
\* for its duration and, left by a normal exit or by an exception and at any
\* nesting depth, restores the flag to the value it had on entry; outside
\* the scopes the flag is false in every reachable state.
C34_FlagRestored ==
    calc.op = "scope" =>
       /\ calc.olds # <<>> => calc.weight_gradients_disabled
       /\ \A i \in 1..Len(calc.left) : calc.left[i].after = calc.left[i].entry
       /\ calc.olds = <<>> => ~calc.weight_gradients_disabled

\* torch.autograd.grad raised in the scope of the path-length or R1
\* gradient: the flag was false on entry and is true outside the scope
C34_LeftByException ==
    /\ calc.op = "scope"
    /\ calc.olds = <<>>
    /\ Len(calc.left) = 1
    /\ calc.left[1] = [entry |-> FALSE, after |-> TRUE, how |-> "exception"]
    /\ calc.weight_gradients_disabled

====
